---- MODULE Spec2Model ----
(***************************************************************************)
(* Checkpoint and replay-log engine of headhunter (ProxyFS).               *)
(*                                                                         *)
(* The model follows src/headhunter/checkpoint.go: recordTransaction,      *)
(* getCheckpoint (run by upVolume), putCheckpoint (run by the checkpoint   *)
(* daemon) and the chunked-PUT helpers.  The object store (Swift), the     *)
(* local file system and the sortedmap B+Tree library are modelled by      *)
(* their contracts: a container with one header, named objects made of     *)
(* chunks, a file made of 4096-byte units, and a tree held in one root     *)
(* node that Flush rewrites when the tree is dirty.                        *)
(***************************************************************************)
EXTENDS Integers, Sequences, FiniteSets, TLC

---------------------------------------------------------------------------
(* Bounds of the model *)

NonceBudget == 4      \* nonces the volume may reserve beyond the seed
MaxLogUnits == 1      \* Spec: the replay log holds at most this many 4096-byte units
MaxRecords == 1       \* Spec: mutating calls between two checkpoints of one run
LogMaxUnits == 3      \* SpecLog: units of the replay log
LogMaxRecords == 2    \* SpecLog: mutating calls between two checkpoints of one run
MaxKey == 1           \* keys of the three trees are 1..MaxKey
MaxBatch == 1         \* a PutInodeRecs batch holds at most this many pairs

---------------------------------------------------------------------------
(* Program constants *)

checkpointHeaderVersion2 == 2
replayLogWriteBufferAlignment == 4096
uint64Size == 8
replayLogTransactionFixedPartStructSize == 32
checkpointObjectTrailerV2StructSize == 96
elementOfBPlusTreeLayoutStructSize == 16

transactionPutInodeRec == 0
transactionPutInodeRecs == 1
transactionDeleteInodeRec == 2
transactionPutLogSegmentRec == 3
transactionDeleteLogSegmentRec == 4
transactionPutBPlusTreeObject == 5
transactionDeleteBPlusTreeObject == 6

\* the seed of the nonce allocator and the reservation step (configuration)
firstNonceToProvide == 100
nonceValuesToReserve == 2

---------------------------------------------------------------------------
(* Data *)

TreeIds == {"inodeRec", "logSegmentRec", "bPlusTreeObject"}
TreeOrder == <<"inodeRec", "logSegmentRec", "bPlusTreeObject">>

Keys == 1..MaxKey
\* value 1 is a short byte string, value 2 one longer than a log unit
Values == {1, 2}
NoValue == 0
\* the lengths in bytes of values 1, 2, ...: beyond the two of Values, the
\* empty value, values that bring an entry to a unit, just over a unit, to
\* the default write buffer and just over it, and a value longer than that
\* buffer
ValueLens == <<3, 5000, 0, 4048, 4049, 409552, 409553, 409601>>
ValueLen(v) == ValueLens[v]

EmptyTree == [k \in Keys |-> NoValue]
EmptyTrees == [t \in TreeIds |-> EmptyTree]

MaxNonce == firstNonceToProvide + NonceBudget

TransactionTypes == 0..6
PutTypes == {transactionPutInodeRec, transactionPutLogSegmentRec, transactionPutBPlusTreeObject}
DeleteTypes == {transactionDeleteInodeRec, transactionDeleteLogSegmentRec, transactionDeleteBPlusTreeObject}

TreeOfType(type) ==
    IF type \in {transactionPutInodeRec, transactionPutInodeRecs, transactionDeleteInodeRec}
    THEN "inodeRec"
    ELSE IF type \in {transactionPutLogSegmentRec, transactionDeleteLogSegmentRec}
         THEN "logSegmentRec"
         ELSE "bPlusTreeObject"

PutTypeOf(t) ==
    IF t = "inodeRec" THEN transactionPutInodeRec
    ELSE IF t = "logSegmentRec" THEN transactionPutLogSegmentRec
         ELSE transactionPutBPlusTreeObject

DeleteTypeOf(t) ==
    IF t = "inodeRec" THEN transactionDeleteInodeRec
    ELSE IF t = "logSegmentRec" THEN transactionDeleteLogSegmentRec
         ELSE transactionDeleteBPlusTreeObject

RECURSIVE SeqSum(_)
SeqSum(s) == IF s = <<>> THEN 0 ELSE Head(s) + SeqSum(Tail(s))

Max(a, b) == IF a >= b THEN a ELSE b

---------------------------------------------------------------------------
(* B+Tree library (sortedmap), by its contract *)

\* PatchByKey returns FALSE and changes nothing when the key is absent
PatchByKey(tree, k, v) ==
    IF tree[k] # NoValue THEN [ok |-> TRUE, tree |-> [tree EXCEPT ![k] = v]]
    ELSE [ok |-> FALSE, tree |-> tree]

Put(tree, k, v) == [tree EXCEPT ![k] = v]

DeleteByKey(tree, k) == [tree EXCEPT ![k] = NoValue]

\* variant: no Put when PatchByKey finds no key
patchOrPutPatchOnly(tree, k, v) == PatchByKey(tree, k, v).tree

\* the put of replay and of the mutating API: PatchByKey, then Put when absent
patchOrPut(tree, k, v) ==
    LET p == PatchByKey(tree, k, v)
    IN IF p.ok THEN p.tree ELSE Put(tree, k, v)

\* length of the serialized root node holding the whole map
NodeLen(tree) == 8 + 16 * Cardinality({k \in Keys : tree[k] # NoValue})

---------------------------------------------------------------------------
(* Replay log: the writer *)

AlignUp(n) ==
    ((n + replayLogWriteBufferAlignment - 1) \div replayLogWriteBufferAlignment)
        * replayLogWriteBufferAlignment

constructReplayLogWriteBuffer(minBufferSize) == AlignUp(minBufferSize)

\* variant: the default buffer is cut at bytesNeeded, not at the next boundary
minimizeReplayLogWriteBufferUnaligned(bytesNeeded) == bytesNeeded

minimizeReplayLogWriteBuffer(bytesNeeded) == AlignUp(bytesNeeded)

replayLogWriteBufferDefaultSize == 100 * replayLogWriteBufferAlignment

RECURSIVE pairsBytes(_)
pairsBytes(vals) ==
    IF vals = <<>> THEN 0
    ELSE uint64Size + uint64Size + ValueLen(Head(vals)) + pairsBytes(Tail(vals))

\* bytesNeeded of recordTransaction, per transaction type
bytesNeededOf(type, keys, vals) ==
    IF type = transactionPutInodeRecs
    THEN 5 * uint64Size + pairsBytes(vals)
    ELSE IF type \in PutTypes
         THEN 6 * uint64Size + ValueLen(vals[1])
         ELSE 5 * uint64Size

\* ECMA CRC-64 of bytes [8, bytesNeeded) of an entry, as a checksum of the
\* fields those bytes hold; it is never 0
crc64Checksum(bf, fence, type, keys, vals) ==
    1 + ((bf + 3 * fence + 5 * type + 7 * SeqSum(keys) + 11 * SeqSum(vals)
            + 13 * Len(keys)) % 65521)

\* size in bytes of the buffer recordTransaction writes
replayLogWriteBufferLen(bytesNeeded) ==
    IF bytesNeeded <= replayLogWriteBufferDefaultSize
    THEN minimizeReplayLogWriteBuffer(bytesNeeded)
    ELSE constructReplayLogWriteBuffer(bytesNeeded)

\* variant: the CRC64 field of the entry is left zero
headUnitNoChecksum(fence, type, keys, vals) ==
    LET bytesNeeded == bytesNeededOf(type, keys, vals)
        bf == bytesNeeded - uint64Size - uint64Size
    IN [kind |-> "head", crc |-> 0,
        bf |-> bf, fence |-> fence, type |-> type, keys |-> keys, vals |-> vals,
        stale |-> 0]

\* the first unit of an entry
headUnit(fence, type, keys, vals) ==
    LET bytesNeeded == bytesNeededOf(type, keys, vals)
        bf == bytesNeeded - uint64Size - uint64Size
    IN [kind |-> "head", crc |-> crc64Checksum(bf, fence, type, keys, vals),
        bf |-> bf, fence |-> fence, type |-> type, keys |-> keys, vals |-> vals,
        stale |-> 0]

\* a later unit of an entry longer than one unit
contUnit(h) == [h EXCEPT !.kind = "cont", !.crc = 0]

\* volume.defaultReplayLogWriteBuffer is allocated once, zeroed, and never
\* cleared; it is held as the number of its leading bytes that transactions
\* have filled so far.  An entry of bytesNeeded bytes cut from it carries,
\* behind its own bytes, what a longer transaction left there: stale is the
\* number of bytes from bytesNeeded up to the last byte so left
staleBytes(filled, bytesNeeded) ==
    IF bytesNeeded <= replayLogWriteBufferDefaultSize /\ filled > bytesNeeded
    THEN (IF filled <= AlignUp(bytesNeeded) THEN filled ELSE AlignUp(bytesNeeded))
            - bytesNeeded
    ELSE 0

\* the buffer written by recordTransaction, as a sequence of units; filled is
\* the state of the default buffer
replayLogWriteBuffer(filled, fence, type, keys, vals) ==
    LET h == [headUnit(fence, type, keys, vals) EXCEPT
                 !.stale = staleBytes(filled, bytesNeededOf(type, keys, vals))]
        n == replayLogWriteBufferLen(h.bf + 16) \div replayLogWriteBufferAlignment
    IN [i \in 1..n |-> IF i = 1 THEN h ELSE contUnit(h)]

NoFile == [exists |-> FALSE, units |-> <<>>, tail |-> 0]
NilHandle == -1

\* the unit that holds byte offset pos
unitOf(pos) == pos \div replayLogWriteBufferAlignment

\* Write(buf) at the handle's byte offset: the bytes from there on are replaced
fileWrite(file, pos, buf) ==
    [exists |-> TRUE,
     units |-> SubSeq(file.units, 1, unitOf(pos)) \o buf
                  \o SubSeq(file.units, unitOf(pos) + Len(buf) + 1, Len(file.units)),
     tail |-> IF Len(file.units) >= unitOf(pos) + Len(buf) THEN file.tail ELSE 0]

\* Truncate(pos): the file ends at byte offset pos
fileTruncate(file, pos) ==
    [exists |-> TRUE, units |-> SubSeq(file.units, 1, unitOf(pos)), tail |-> 0]

---------------------------------------------------------------------------
(* Replay log: the reader of getCheckpoint *)

KnownType(type) == type \in TransactionTypes

RECURSIVE applyPairs(_, _, _)
applyPairs(tree, keys, vals) ==
    IF keys = <<>> THEN tree
    ELSE applyPairs(patchOrPut(tree, Head(keys), Head(vals)), Tail(keys), Tail(vals))

\* DeleteByKey leaves a tree without the key as it is; every put dirties it
treeDirtiedBy(tr, u) ==
    \/ u.type = transactionPutInodeRecs /\ u.keys # <<>>
    \/ u.type \in PutTypes
    \/ u.type \in DeleteTypes /\ tr[TreeOfType(u.type)][u.keys[1]] # NoValue

\* the switch on TransactionType of the replay loop, on st = [trees, dirty]
replayTransaction(st, u) ==
    LET t == TreeOfType(u.type)
        tr == st.trees
    IN [trees |-> IF u.type = transactionPutInodeRecs
                  THEN [tr EXCEPT ![t] = applyPairs(tr[t], u.keys, u.vals)]
                  ELSE IF u.type \in PutTypes
                       THEN [tr EXCEPT ![t] = patchOrPut(tr[t], u.keys[1], u.vals[1])]
                       ELSE [tr EXCEPT ![t] = DeleteByKey(tr[t], u.keys[1])],
        dirty |-> [st.dirty EXCEPT ![t] = @ \/ treeDirtiedBy(tr, u)]]

\* the bytes [8, bytesNeeded) read at unit pos+1 are those of one whole entry
bodyIntact(file, pos, n) ==
    /\ file.units[pos + 1].kind = "head"
    /\ \A i \in 2..n : file.units[pos + i] = contUnit(file.units[pos + 1])

\* variant: a long entry is read into a buffer of just bytesNeeded bytes
replayLogReadBufferLenUnaligned(bf) ==
    LET bytesNeeded == uint64Size + uint64Size + bf
    IN IF bytesNeeded <= constructReplayLogWriteBuffer(replayLogTransactionFixedPartStructSize)
       THEN constructReplayLogWriteBuffer(replayLogTransactionFixedPartStructSize)
       ELSE bytesNeeded

\* number of units the reader consumes for an entry with this BytesFollowing
replayLogReadBufferLen(bf) ==
    LET bytesNeeded == uint64Size + uint64Size + bf
    IN IF bytesNeeded <= constructReplayLogWriteBuffer(replayLogTransactionFixedPartStructSize)
       THEN constructReplayLogWriteBuffer(replayLogTransactionFixedPartStructSize)
       ELSE constructReplayLogWriteBuffer(bytesNeeded)

\* lines 785-789: the size of the file, rounded down to a whole number of units
replayLogSizeOf(file) ==
    ((Len(file.units) * replayLogWriteBufferAlignment + file.tail)
        \div replayLogWriteBufferAlignment) * replayLogWriteBufferAlignment

\* the replay loop from byte offset pos on st = [trees, dirty]; result: err
\* (getCheckpoint returns an error), the trees, the final offset and whether
\* the file was truncated there
RECURSIVE replayLoop(_, _, _)
replayLoop(file, pos, tr) ==
    IF pos >= replayLogSizeOf(file)
    THEN [err |-> FALSE, st |-> tr, pos |-> pos, truncated |-> FALSE]
    ELSE LET at == pos \div replayLogWriteBufferAlignment
             u == file.units[at + 1]
             len == replayLogReadBufferLen(u.bf)
             avail == Len(file.units) * replayLogWriteBufferAlignment + file.tail - pos
         IN IF len > avail
            THEN \* io.ReadFull meets the end of the file
                 [err |-> TRUE, st |-> tr, pos |-> pos, truncated |-> FALSE]
            ELSE IF \/ ~bodyIntact(file, at, len \div replayLogWriteBufferAlignment)
                    \/ crc64Checksum(u.bf, u.fence, u.type, u.keys, u.vals) # u.crc
                 THEN [err |-> FALSE, st |-> tr, pos |-> pos, truncated |-> TRUE]
                 ELSE IF ~KnownType(u.type)
                      THEN [err |-> FALSE, st |-> tr, pos |-> pos, truncated |-> TRUE]
                      ELSE replayLoop(file, pos + len, replayTransaction(tr, u))

---------------------------------------------------------------------------
(* Replay log entries byte by byte.  A byte buffer is its length and the
   fields copied into it, each at its byte offset; a byte no copy reached
   holds whatever the buffer held before *)

\* what the bytes at an offset yield when they are not one whole field
Junk == -1

NoFields == [o \in {} |-> 0]
NoBytes == [size |-> 0, at |-> NoFields]

\* copy(buf[pos:], packed) of n bytes that hold v; a copy of no bytes does nothing
copyAt(buf, pos, n, v) ==
    IF n = 0 THEN buf
    ELSE [buf EXCEPT !.at = [o \in DOMAIN buf.at \cup {pos} |->
                                IF o = pos THEN [n |-> n, v |-> v] ELSE buf.at[o]]]

\* cstruct.Unpack of the uint64 at pos
unpackUint64(buf, pos) ==
    IF pos \in DOMAIN buf.at /\ buf.at[pos].n = uint64Size THEN buf.at[pos].v ELSE Junk

\* the byte string of length zero
EmptyValue == CHOOSE v \in 1..Len(ValueLens) : ValueLens[v] = 0

\* make([]byte, n) filled from buf[pos:pos+n]
bytesAt(buf, pos, n) ==
    IF n = 0 THEN EmptyValue
    ELSE IF pos \in DOMAIN buf.at /\ buf.at[pos].n = n THEN buf.at[pos].v ELSE Junk

RECURSIVE fieldsSum(_, _)
fieldsSum(at, offsets) ==
    IF offsets = {} THEN 0
    ELSE LET o == CHOOSE x \in offsets : TRUE
         IN (o + 1) * (at[o].v + 2) + at[o].n + fieldsSum(at, offsets \ {o})

\* crc64.Checksum(buf[from:to]): a checksum of the length of the slice and
\* of the fields in it
crc64ChecksumOfBytes(buf, from, to) ==
    1 + (((to - from)
          + fieldsSum(buf.at, {o \in DOMAIN buf.at : from <= o /\ o + buf.at[o].n <= to}))
         % 65521)

\* variant: BytesFollowing counts the bytes behind the CRC64 field
packFixedPartCountsFromChecksum(buf, bytesNeeded, fence, type) ==
    copyAt(copyAt(copyAt(buf, uint64Size, uint64Size, bytesNeeded - uint64Size),
                  2 * uint64Size, uint64Size, fence),
           3 * uint64Size, uint64Size, type)

\* lines 270-297: BytesFollowing, the object number of the last checkpoint
\* and the type, behind the room left for the CRC64
packFixedPart(buf, bytesNeeded, fence, type) ==
    copyAt(copyAt(copyAt(buf, uint64Size, uint64Size, bytesNeeded - uint64Size - uint64Size),
                  2 * uint64Size, uint64Size, fence),
           3 * uint64Size, uint64Size, type)

\* a key, len(value) and the value at pos
packPair(buf, pos, k, v) ==
    copyAt(copyAt(copyAt(buf, pos, uint64Size, k),
                  pos + uint64Size, uint64Size, ValueLen(v)),
           pos + 2 * uint64Size, ValueLen(v), v)

RECURSIVE packPairs(_, _, _, _)
packPairs(buf, pos, keys, vals) ==
    IF keys = <<>> THEN buf
    ELSE packPairs(packPair(buf, pos, Head(keys), Head(vals)),
                   pos + 2 * uint64Size + ValueLen(Head(vals)), Tail(keys), Tail(vals))

\* lines 301-428: the bytes that depend on the type
packPayload(buf, type, keys, vals) ==
    IF type = transactionPutInodeRecs
    THEN packPairs(copyAt(buf, replayLogTransactionFixedPartStructSize, uint64Size, Len(keys)),
                   replayLogTransactionFixedPartStructSize + uint64Size, keys, vals)
    ELSE IF type \in PutTypes
         THEN packPair(buf, replayLogTransactionFixedPartStructSize, keys[1], vals[1])
         ELSE copyAt(buf, replayLogTransactionFixedPartStructSize, uint64Size, keys[1])

\* lines 432-436: the CRC64 of bytes [8, bytesNeeded) goes in front
packChecksum(buf, bytesNeeded) ==
    copyAt(buf, 0, uint64Size, crc64ChecksumOfBytes(buf, uint64Size, bytesNeeded))

\* lines 262-436: the buffer recordTransaction hands to Write
replayLogWriteBufferBytes(fence, type, keys, vals) ==
    packChecksum(
        packPayload(
            packFixedPart([size |-> replayLogWriteBufferLen(bytesNeededOf(type, keys, vals)),
                           at |-> NoFields],
                          bytesNeededOf(type, keys, vals), fence, type),
            type, keys, vals),
        bytesNeededOf(type, keys, vals))

\* Write(buf) at the end of the file
bytesAppended(file, buf) ==
    [size |-> file.size + buf.size,
     at |-> [o \in DOMAIN file.at \cup {file.size + x : x \in DOMAIN buf.at} |->
                IF o \in DOMAIN file.at THEN file.at[o] ELSE buf.at[o - file.size]]]

\* io.ReadFull of n bytes at pos of the file
bytesRead(file, pos, n) ==
    [size |-> n,
     at |-> [o \in {x - pos : x \in {y \in DOMAIN file.at :
                                        pos <= y /\ y + file.at[y].n <= pos + n}} |->
                file.at[o + pos]]]

RECURSIVE unpackPairs(_, _, _, _, _)
unpackPairs(buf, pos, n, keys, vals) ==
    IF n <= 0 THEN [keys |-> keys, vals |-> vals]
    ELSE unpackPairs(buf,
                     pos + 2 * uint64Size + unpackUint64(buf, pos + uint64Size),
                     n - 1,
                     Append(keys, unpackUint64(buf, pos)),
                     Append(vals, bytesAt(buf, pos + 2 * uint64Size,
                                          unpackUint64(buf, pos + uint64Size))))

\* lines 852-988: the keys and values the switch of replay hands to the tree
unpackPayload(buf, type) ==
    IF type = transactionPutInodeRecs
    THEN unpackPairs(buf, replayLogTransactionFixedPartStructSize + uint64Size,
                     unpackUint64(buf, replayLogTransactionFixedPartStructSize), <<>>, <<>>)
    ELSE IF type \in PutTypes
         THEN unpackPairs(buf, replayLogTransactionFixedPartStructSize, 1, <<>>, <<>>)
         ELSE [keys |-> <<unpackUint64(buf, replayLogTransactionFixedPartStructSize)>>,
               vals |-> <<>>]

\* lines 836-988 on replayLogReadBuffer: the CRC check and the decoding
unpackTransaction(buf) ==
    [err |-> FALSE,
     crcOk |-> crc64ChecksumOfBytes(buf, uint64Size,
                                    2 * uint64Size + unpackUint64(buf, uint64Size))
                  = unpackUint64(buf, 0),
     bf |-> unpackUint64(buf, uint64Size),
     type |-> unpackUint64(buf, 3 * uint64Size),
     keys |-> unpackPayload(buf, unpackUint64(buf, 3 * uint64Size)).keys,
     vals |-> unpackPayload(buf, unpackUint64(buf, 3 * uint64Size)).vals,
     advance |-> buf.size]

ReadFullFails == [err |-> TRUE, crcOk |-> FALSE, bf |-> 0, type |-> 0,
                  keys |-> <<>>, vals |-> <<>>, advance |-> 0]

\* line 796: the buffer the fixed part of an entry is read into
defaultReplayLogReadBufferLen ==
    constructReplayLogWriteBuffer(replayLogTransactionFixedPartStructSize)

\* lines 801-815: BytesFollowing of the entry at pos
bytesFollowingAt(file, pos) ==
    unpackUint64(bytesRead(file, pos, defaultReplayLogReadBufferLen), uint64Size)

\* lines 801-832: the first unit is read, and the whole entry again when it
\* is longer; io.ReadFull fails at the end of the file
replayTransactionBytes(file, pos) ==
    IF pos + defaultReplayLogReadBufferLen > file.size THEN ReadFullFails
    ELSE IF pos + replayLogReadBufferLen(bytesFollowingAt(file, pos)) > file.size
         THEN ReadFullFails
         ELSE unpackTransaction(
                  bytesRead(file, pos, replayLogReadBufferLen(bytesFollowingAt(file, pos))))

---------------------------------------------------------------------------
(* Object store (Swift) and the chunked-PUT helpers *)

\* fmt.Sprintf("%016X %016X %016X %016X", ...): the four fields of the header
checkpointHeaderValue(ver, hdr) == <<ver, hdr.obj, hdr.len, hdr.reserved>>

NoContainer == [exists |-> FALSE, value |-> <<>>]
NoContext == [open |-> FALSE, chunks |-> <<>>, bytesPut |-> 0]
NoRoot == [obj |-> 0, off |-> 0, len |-> 0]
EmptyLayout == [o \in {} |-> 0]

Call(w, op, obj, ok) ==
    [w EXCEPT !.calls = Append(@, [op |-> op, obj |-> obj, ok |-> ok])]

\* swiftclient.ContainerPost of a checkpoint header; point names the caller
ContainerPost(w, value, point) ==
    IF w.fail = point
    THEN [Call(w, point, value[2], FALSE) EXCEPT !.err = TRUE]
    ELSE [Call(w, point, value[2], TRUE) EXCEPT
              !.container = [exists |-> TRUE, value |-> value]]

\* the allocator holds the last nonce handed out; a fetch that would pass
\* ReservedToNonce first reserves nonceValuesToReserve more in the header
nonceReserved(w) ==
    IF w.err THEN w ELSE [w EXCEPT !.hdr.reserved = @ + nonceValuesToReserve]

reserveNoncesIfNecessary(w) ==
    IF w.nextNonce + 1 > w.hdr.reserved
    THEN nonceReserved(ContainerPost(w,
             checkpointHeaderValue(checkpointHeaderVersion2,
                 [w.hdr EXCEPT !.reserved = @ + nonceValuesToReserve]),
             "reserve"))
    ELSE w

\* nonce lies within what the volume holds reserved and within what the header
\* of the container durably says is reserved
nonceIsReserved(w, nonce) ==
    /\ nonce <= w.hdr.reserved
    /\ w.container.exists
    /\ Len(w.container.value) = 4
    /\ nonce <= w.container.value[4]

nonceTaken(w) ==
    IF w.err THEN w
    ELSE [w EXCEPT !.nextNonce = @ + 1, !.nonce = w.nextNonce + 1,
                   !.fetched = Append(@, w.nextNonce + 1),
                   !.unreserved = @ \/ ~nonceIsReserved(w, w.nextNonce + 1)]

fetchNonceWhileLocked(w) == nonceTaken(reserveNoncesIfNecessary(w))

\* variant: the context is opened under the object number of the context before
contextOpenedKeepsObjectNumber(w) ==
    IF w.err THEN w
    ELSE [w EXCEPT !.ctx = [open |-> TRUE, chunks |-> <<>>, bytesPut |-> 0]]

\* lines 1241-1247: the context of the object named by the nonce just fetched
contextOpened(w) ==
    IF w.err THEN w
    ELSE [w EXCEPT !.ctxObj = w.nonce,
                   !.ctx = [open |-> TRUE, chunks |-> <<>>, bytesPut |-> 0]]

\* variant: a context is opened, under a new object number, on every call
openCheckpointChunkedPutContextAlways(w) == contextOpened(fetchNonceWhileLocked(w))

openCheckpointChunkedPutContextIfNecessary(w) ==
    IF w.ctx.open THEN w ELSE contextOpened(fetchNonceWhileLocked(w))

\* the result carries the error flag and the running length
bytesPutToCheckpointChunkedPutContext(w) ==
    IF ~w.ctx.open THEN [err |-> TRUE, bytesPut |-> 0]
    ELSE [err |-> FALSE, bytesPut |-> w.ctx.bytesPut]

\* a caller that has met an error has returned before it gets here
sendChunkToCheckpointChunkedPutContext(w, kind, len, data) ==
    IF w.err THEN w
    ELSE IF ~w.ctx.open \/ w.fail = "send" THEN [w EXCEPT !.err = TRUE]
    ELSE [w EXCEPT !.ctx.chunks = Append(@, [kind |-> kind, off |-> w.ctx.bytesPut,
                                              len |-> len, data |-> data]),
                   !.ctx.bytesPut = @ + len]

\* ChunkedPutContext.Close(): the object exists in the container from here on
contextClose(w) ==
    IF w.fail = "close" THEN [w EXCEPT !.err = TRUE, !.ctx = NoContext]
    ELSE [w EXCEPT !.objects = [o \in (DOMAIN w.objects) \cup {w.ctxObj} |->
                                   IF o = w.ctxObj THEN w.ctx.chunks ELSE w.objects[o]],
                   !.ctx = NoContext]

closeCheckpointChunkedPutContextIfNecessary(w) ==
    IF ~w.ctx.open THEN w
    ELSE IF w.ctx.bytesPut >= w.maxFlushSize THEN contextClose(w) ELSE w

closeCheckpointChunkedPutContext(w) ==
    IF w.err THEN w
    ELSE IF ~w.ctx.open THEN [w EXCEPT !.err = TRUE] ELSE contextClose(w)

---------------------------------------------------------------------------
(* Node I/O callbacks of the tree wrappers and Flush of the library *)

layoutCredit(l, obj, len) ==
    [o \in (DOMAIN l) \cup {obj} |->
        IF o = obj THEN (IF obj \in DOMAIN l THEN l[obj] + len ELSE len) ELSE l[o]]

\* the node has been sent as the chunk at: credit the layout, close a full object
nodeSent(w, t, at) ==
    IF w.err THEN w
    ELSE closeCheckpointChunkedPutContextIfNecessary(
             [w EXCEPT !.layout[t] = layoutCredit(@, at.obj, at.len),
                       !.checkpointFlushedData = TRUE,
                       !.put = at])

\* the context is open: ship the node as one chunk
nodeShipped(w, t, len, data) ==
    IF w.err THEN w
    ELSE nodeSent(sendChunkToCheckpointChunkedPutContext(w, "node", len, data), t,
                  [obj |-> w.ctxObj, off |-> w.ctx.bytesPut, len |-> len])

\* node-write callback
PutNode(w, t, len, data) ==
    nodeShipped(openCheckpointChunkedPutContextIfNecessary(w), t, len, data)

\* node-discard callback: the bytes of a superseded node leave the layout
DiscardNode(w, t, at) ==
    IF at.obj \notin DOMAIN w.layout[t] \/ w.layout[t][at.obj] < at.len
    THEN [w EXCEPT !.err = TRUE]
    ELSE [w EXCEPT !.layout[t][at.obj] = @ - at.len]

\* node-read callback: the chunk at (obj, off, len), if the object holds it
GetNode(objs, at) ==
    IF at.obj \notin DOMAIN objs THEN [err |-> TRUE, data |-> EmptyTree]
    ELSE LET hits == {i \in 1..Len(objs[at.obj]) :
                        /\ objs[at.obj][i].kind = "node"
                        /\ objs[at.obj][i].off = at.off
                        /\ objs[at.obj][i].len = at.len}
         IN IF hits = {} THEN [err |-> TRUE, data |-> EmptyTree]
            ELSE [err |-> FALSE, data |-> objs[at.obj][CHOOSE i \in hits : TRUE].data]

\* the new root is written: the old copy is discarded, the root recorded
rootReplaced(w, t, old) ==
    IF w.err THEN w
    ELSE [(IF old.obj # 0 THEN DiscardNode(w, t, old) ELSE w) EXCEPT
              !.roots[t] = w.put, !.dirty[t] = FALSE]

\* Flush(false) of one tree: a dirty root is written anew and its old copy
\* discarded; the root location ends up in the trailer
Flush(w, t) ==
    IF w.err \/ ~w.dirty[t] THEN w
    ELSE rootReplaced(PutNode(w, t, NodeLen(w.trees[t]), w.trees[t]), t, w.roots[t])

---------------------------------------------------------------------------
(* putCheckpoint *)

RECURSIVE layoutPairs(_)
\* the (ObjectNumber, ObjectBytes) elements of one layout report
layoutPairs(l) ==
    IF DOMAIN l = {} THEN <<>>
    ELSE LET o == CHOOSE x \in DOMAIN l : \A y \in DOMAIN l : x <= y
         IN <<<<o, l[o]>>>> \o layoutPairs([y \in (DOMAIN l) \ {o} |-> l[y]])

\* variant: putCheckpoint goes on although nothing was shipped
flushDoneGoesOn(w) == w

\* lines 1054-1056: return at once when nothing was shipped
flushDone(w) ==
    IF w.err THEN w
    ELSE IF ~w.checkpointFlushedData THEN [w EXCEPT !.done = TRUE] ELSE w

\* variant: the replay log is removed before the trees are flushed, not
\* after the header is posted
putCheckpointFlushRemovesLog(w) ==
    flushDone(Flush(Flush(Flush([w EXCEPT !.checkpointFlushedData = FALSE,
                                          !.replayLog = NoFile],
                                "inodeRec"), "logSegmentRec"), "bPlusTreeObject"))

\* lines 1030-1056: flush the three trees
putCheckpointFlush(w) ==
    flushDone(Flush(Flush(Flush([w EXCEPT !.checkpointFlushedData = FALSE],
                                "inodeRec"), "logSegmentRec"), "bPlusTreeObject"))

\* variant: the in-memory header keeps naming the previous trailer
trailerClosedKeepsHeader(w, length) == w

\* variant: the length in the header is that of the layouts, without the
\* fixed part of the trailer
trailerClosedLayoutLength(w, length) ==
    IF w.err THEN w
    ELSE [w EXCEPT !.hdr.obj = w.ctxObj,
                   !.hdr.len = length - checkpointObjectTrailerV2StructSize]

\* lines 1141-1142: the in-memory header points at the trailer
trailerClosed(w, length) ==
    IF w.err THEN w
    ELSE [w EXCEPT !.hdr.obj = w.ctxObj, !.hdr.len = length]

\* lines 1128-1139: the length of what was sent, then the close
trailerSent(w, beginning) ==
    IF w.err THEN w
    ELSE IF bytesPutToCheckpointChunkedPutContext(w).err THEN [w EXCEPT !.err = TRUE]
    ELSE trailerClosed(closeCheckpointChunkedPutContext(w),
                       bytesPutToCheckpointChunkedPutContext(w).bytesPut - beginning)

\* lines 1116-1126: the trailer and the layouts are sent as two chunks
trailerOpened(w, pairs) ==
    IF w.err THEN w
    ELSE IF bytesPutToCheckpointChunkedPutContext(w).err THEN [w EXCEPT !.err = TRUE]
    ELSE trailerSent(
             sendChunkToCheckpointChunkedPutContext(
                 sendChunkToCheckpointChunkedPutContext(w, "trailer",
                     checkpointObjectTrailerV2StructSize,
                     [roots |-> w.roots, counts |-> w.counts]),
                 "layout", elementOfBPlusTreeLayoutStructSize * Len(pairs), pairs),
             bytesPutToCheckpointChunkedPutContext(w).bytesPut)

\* lines 1058-1069: Prune of the three trees, which drops clean nodes from
\* the cache of the library
putCheckpointPrune(w) == Call(Call(Call(w, "Prune", 0, TRUE), "Prune", 0, TRUE), "Prune", 0, TRUE)

\* lines 1058-1142: prune, serialize the trailer and the layouts, ship them,
\* close the chunked PUT and point the in-memory header at the trailer
putCheckpointTrailer(w) ==
    IF w.err \/ w.done THEN w
    ELSE trailerOpened(
             openCheckpointChunkedPutContextIfNecessary(
                 [putCheckpointPrune(w) EXCEPT
                     !.counts = [t \in TreeIds |-> Cardinality(DOMAIN w.layout[t])]]),
             layoutPairs(w.layout["inodeRec"])
                 \o layoutPairs(w.layout["logSegmentRec"])
                 \o layoutPairs(w.layout["bPlusTreeObject"]))

\* lines 1144-1162: the header POST
putCheckpointPost(w) ==
    IF w.err \/ w.done THEN w
    ELSE ContainerPost(w, checkpointHeaderValue(checkpointHeaderVersion2, w.hdr), "post")

\* lines 1164-1170: close the replay log
putCheckpointReplayLogClose(w) ==
    IF w.err \/ w.done \/ w.replayLogFile = NilHandle THEN w
    ELSE IF w.fail = "logClose" THEN [Call(w, "logClose", 0, FALSE) EXCEPT !.err = TRUE]
         ELSE [Call(w, "logClose", 0, TRUE) EXCEPT !.replayLogFile = NilHandle]

\* variant: the replay log is closed and its file left in place
putCheckpointReplayLogRemoveKeepsFile(w) == w

\* variant: a failed Remove is not reported
putCheckpointReplayLogRemoveQuiet(w) ==
    IF w.err \/ w.done \/ w.replayLogFileName = "" THEN w
    ELSE IF w.fail = "logRemove" THEN Call(w, "logRemove", 0, FALSE)
         ELSE [Call(w, IF w.replayLog.exists THEN "logRemove" ELSE "logRemoveNotExist",
                    0, w.replayLog.exists) EXCEPT !.replayLog = NoFile]

\* lines 1172-1179: remove the replay log; an absent file is tolerated
putCheckpointReplayLogRemove(w) ==
    IF w.err \/ w.done \/ w.replayLogFileName = "" THEN w
    ELSE IF w.fail = "logRemove" THEN [Call(w, "logRemove", 0, FALSE) EXCEPT !.err = TRUE]
         ELSE [Call(w, IF w.replayLog.exists THEN "logRemove" ELSE "logRemoveNotExist",
                    0, w.replayLog.exists) EXCEPT !.replayLog = NoFile]

\* bytesUsedCumulative of an object over the three layouts
combinedBPlusTreeLayout(layout) ==
    [o \in UNION {DOMAIN layout[t] : t \in TreeIds} |->
        SeqSum([i \in 1..3 |-> IF o \in DOMAIN layout[TreeOrder[i]]
                               THEN layout[TreeOrder[i]][o] ELSE 0])]

\* variant: the entries with no bytes left stay in the per-tree layouts
layoutDropUnusedKeepsAll(l) == l

\* lines 1190-1192: a per-tree entry with no bytes left is dropped
layoutDropUnused(l) == [o \in {x \in DOMAIN l : l[x] # 0} |-> l[o]]

\* variant: an object is deleted as soon as one tree has no bytes left in it
objectsToDeletePerTree(layout) ==
    {o \in DOMAIN combinedBPlusTreeLayout(layout) :
        \E t \in TreeIds : o \in DOMAIN layout[t] /\ layout[t][o] = 0}

\* line 1218: the objects to delete
objectsToDelete(layout) ==
    {o \in DOMAIN combinedBPlusTreeLayout(layout) : combinedBPlusTreeLayout(layout)[o] = 0}

\* swiftclient.ObjectDeleteAsync for each of objs; the object store is taken
\* to carry a delete out as soon as it is asked for
RECURSIVE deleteAll(_, _)
deleteAll(w, objs) ==
    IF objs = {} THEN w
    ELSE LET o == CHOOSE x \in objs : \A y \in objs : x <= y
         IN deleteAll([Call(w, "ObjectDeleteAsync", o, TRUE) EXCEPT
                          !.objects = [x \in (DOMAIN w.objects) \ {o} |-> w.objects[x]]],
                      objs \ {o})

\* lines 1183-1215: the three loops over the per-tree layouts; each delete()
\* of an entry of tree TreeOrder[i] is noted among the calls
RECURSIVE layoutsPruned(_, _)
layoutsPruned(w, i) ==
    IF i > Len(TreeOrder) THEN w
    ELSE LET t == TreeOrder[i]
             gone == {o \in DOMAIN w.layout[t] : o \notin DOMAIN layoutDropUnused(w.layout[t])}
         IN layoutsPruned(
                [w EXCEPT !.layout[t] = layoutDropUnused(@),
                          !.calls = @ \o [j \in 1..Cardinality(gone) |->
                                             [op |-> "delete", obj |-> layoutPairs(
                                                  [o \in gone |-> 0])[j][1], ok |-> TRUE]]],
                i + 1)

\* variant: the deletes are issued although an earlier step has failed
putCheckpointGCRegardless(w) ==
    IF w.done THEN w
    ELSE deleteAll(layoutsPruned(w, 1), objectsToDelete(w.layout))

\* lines 1181-1226: garbage collection
putCheckpointGC(w) ==
    IF w.err \/ w.done THEN w
    ELSE deleteAll(layoutsPruned(w, 1), objectsToDelete(w.layout))

putCheckpoint(w) ==
    putCheckpointGC(putCheckpointReplayLogRemove(putCheckpointReplayLogClose(
        putCheckpointPost(putCheckpointTrailer(putCheckpointFlush(w))))))

---------------------------------------------------------------------------
(* getCheckpoint, run by upVolume *)

\* strconv.ParseUint(field, 16, 64): a field that is not hex is modelled as -1
parseUint(field) == [err |-> field < 0, val |-> field]

\* variant: the version field is parsed and not compared
parseCheckpointHeaderAnyVersion(value) ==
    IF Len(value) < 1 \/ parseUint(value[1]).err THEN [err |-> TRUE, hdr |-> NoRoot]
    ELSE IF Len(value) # 4 THEN [err |-> TRUE, hdr |-> NoRoot]
    ELSE IF \E i \in 2..4 : parseUint(value[i]).err THEN [err |-> TRUE, hdr |-> NoRoot]
    ELSE [err |-> FALSE, hdr |-> [obj |-> value[2], len |-> value[3], reserved |-> value[4]]]

\* lines 569-609: split and parse the header value
parseCheckpointHeader(value) ==
    IF Len(value) < 1 \/ parseUint(value[1]).err THEN [err |-> TRUE, hdr |-> NoRoot]
    ELSE IF value[1] # checkpointHeaderVersion2 THEN [err |-> TRUE, hdr |-> NoRoot]
    ELSE IF Len(value) # 4 THEN [err |-> TRUE, hdr |-> NoRoot]
    ELSE IF \E i \in 2..4 : parseUint(value[i]).err THEN [err |-> TRUE, hdr |-> NoRoot]
    ELSE [err |-> FALSE, hdr |-> [obj |-> value[2], len |-> value[3], reserved |-> value[4]]]

\* swiftclient.ObjectTail: the last length bytes of the object, which hold a
\* trailer only when they start where the trailer chunk starts
ObjectTail(objs, obj, length) ==
    IF obj \notin DOMAIN objs THEN [err |-> TRUE, len |-> 0, fixed |-> <<>>, pairs |-> <<>>]
    ELSE LET cs == objs[obj]
             n == Len(cs)
         IN IF /\ n >= 2
               /\ cs[n - 1].kind = "trailer"
               /\ cs[n].kind = "layout"
               /\ cs[n - 1].len + cs[n].len = length
            THEN [err |-> FALSE, len |-> length, fixed |-> cs[n - 1].data, pairs |-> cs[n].data]
            ELSE [err |-> TRUE, len |-> 0, fixed |-> <<>>, pairs |-> <<>>]

\* lines 662-690: one layout report from n elements after the first from
unpackLayout(pairs, from, n) ==
    LET idx == (from + 1)..(from + n)
    IN [o \in {pairs[i][1] : i \in idx} |->
           pairs[CHOOSE i \in idx : pairs[i][1] = o /\ \A j \in idx : pairs[j][1] = o => j <= i][2]]

\* variant: the allocator restarts one above the durable ReservedToNonce
nextNonceAfterLoadAbove(hdr) == hdr.reserved + 1

\* variant: the allocator restarts one below the durable ReservedToNonce
nextNonceAfterLoadBelow(hdr) == hdr.reserved - 1

\* line 762
nextNonceAfterLoad(hdr) == hdr.reserved

\* variant: an absent container is made whatever autoFormat says
getCheckpointHeadFormats(w, autoFormat) ==
    IF w.fail # "head" /\ w.container.exists
    THEN [w EXCEPT !.value = w.container.value]
    ELSE IF w.fail # "head"
         THEN LET value == checkpointHeaderValue(checkpointHeaderVersion2,
                               [obj |-> 0, len |-> 0, reserved |-> firstNonceToProvide])
              IN IF w.fail = "containerPut"
                 THEN [Call(w, "ContainerPut", 0, FALSE) EXCEPT !.err = TRUE]
                 ELSE LET w1 == [Call(w, "ContainerPut", 0, TRUE) EXCEPT
                                     !.container = [exists |-> TRUE, value |-> value],
                                     !.value = value]
                      IN IF w.fail = "accountPost"
                         THEN [Call(w1, "AccountPost", 0, FALSE) EXCEPT !.err = TRUE]
                         ELSE [Call(w1, "AccountPost", 0, TRUE) EXCEPT !.accountHeader = TRUE]
         ELSE [w EXCEPT !.err = TRUE]

\* lines 507-567: HEAD of the checkpoint container, auto-format when absent
getCheckpointHead(w, autoFormat) ==
    IF w.fail # "head" /\ w.container.exists
    THEN [w EXCEPT !.value = w.container.value]
    ELSE IF autoFormat /\ w.fail # "head"
         THEN LET value == checkpointHeaderValue(checkpointHeaderVersion2,
                               [obj |-> 0, len |-> 0, reserved |-> firstNonceToProvide])
              IN IF w.fail = "containerPut"
                 THEN [Call(w, "ContainerPut", 0, FALSE) EXCEPT !.err = TRUE]
                 ELSE LET w1 == [Call(w, "ContainerPut", 0, TRUE) EXCEPT
                                     !.container = [exists |-> TRUE, value |-> value],
                                     !.value = value]
                      IN IF w.fail = "accountPost"
                         THEN [Call(w1, "AccountPost", 0, FALSE) EXCEPT !.err = TRUE]
                         ELSE [Call(w1, "AccountPost", 0, TRUE) EXCEPT !.accountHeader = TRUE]
         ELSE [w EXCEPT !.err = TRUE]

\* lines 693-762: the three trees from their roots, then the allocator
loadTrees(w, hdr, roots, node) ==
    IF \E t \in TreeIds : roots[t].obj # 0 /\ node[t].err
    THEN [w EXCEPT !.err = TRUE, !.hdr = hdr]
    ELSE [w EXCEPT
            !.hdr = hdr,
            !.roots = roots,
            !.trees = [t \in TreeIds |-> IF roots[t].obj = 0 THEN EmptyTree ELSE node[t].data],
            \* NewBPlusTree starts with a dirty root, OldBPlusTree clean
            !.dirty = [t \in TreeIds |-> roots[t].obj = 0],
            !.nextNonce = nextNonceAfterLoad(hdr)]

\* lines 611-691: the trailer and the three layout reports behind it
loadTrailer(w, hdr, tail) ==
    IF tail.err THEN [w EXCEPT !.err = TRUE, !.hdr = hdr]
    ELSE IF tail.len # (tail.fixed.counts["inodeRec"] + tail.fixed.counts["logSegmentRec"]
                          + tail.fixed.counts["bPlusTreeObject"])
                         * elementOfBPlusTreeLayoutStructSize
                       + checkpointObjectTrailerV2StructSize
         THEN [w EXCEPT !.err = TRUE, !.hdr = hdr]
    ELSE loadTrees(
             [w EXCEPT
                !.counts = tail.fixed.counts,
                !.layout = [t \in TreeIds |->
                              IF t = "inodeRec"
                              THEN unpackLayout(tail.pairs, 0, tail.fixed.counts["inodeRec"])
                              ELSE IF t = "logSegmentRec"
                                   THEN unpackLayout(tail.pairs, tail.fixed.counts["inodeRec"],
                                                     tail.fixed.counts["logSegmentRec"])
                                   ELSE unpackLayout(tail.pairs,
                                                     tail.fixed.counts["inodeRec"]
                                                        + tail.fixed.counts["logSegmentRec"],
                                                     tail.fixed.counts["bPlusTreeObject"])]],
             hdr, tail.fixed.roots,
             [t \in TreeIds |-> GetNode(w.objects, tail.fixed.roots[t])])

\* lines 611-623: a header naming object 0 stands for a volume without trees
loadHeader(w, p) ==
    IF p.err THEN [w EXCEPT !.err = TRUE]
    ELSE IF p.hdr.obj = 0
         THEN loadTrees([w EXCEPT !.counts = [t \in TreeIds |-> 0],
                                  !.layout = [t \in TreeIds |-> EmptyLayout]],
                        p.hdr, [t \in TreeIds |-> NoRoot],
                        [t \in TreeIds |-> [err |-> FALSE, data |-> EmptyTree]])
         ELSE loadTrailer(w, p.hdr, ObjectTail(w.objects, p.hdr.obj, p.hdr.len))

\* lines 569-762: the header, the trailer, the layouts and the three trees
getCheckpointLoad(w) ==
    IF w.err THEN w ELSE loadHeader(w, parseCheckpointHeader(w.value))

\* the units of file before the first entry whose LastCheckpointObjectNumber
\* is not obj
RECURSIVE fencedPrefix(_, _, _)
fencedPrefix(units, pos, obj) ==
    IF pos >= Len(units) THEN units
    ELSE IF units[pos + 1].kind = "head" /\ units[pos + 1].fence # obj
         THEN SubSeq(units, 1, pos)
         ELSE fencedPrefix(units, pos + 1, obj)

\* variant: an entry fenced by another checkpoint ends the replay, and the
\* file is truncated where it starts
replayedFenced(w, r) ==
    LET units == fencedPrefix(w.replayLog.units, 0, w.hdr.obj)
        cut == [exists |-> TRUE, units |-> units, tail |-> 0]
        rr == replayLoop(cut, 0, [trees |-> w.trees, dirty |-> w.dirty])
    IN IF Len(units) = Len(w.replayLog.units) THEN
          (IF r.err
           THEN [w EXCEPT !.err = TRUE, !.trees = r.st.trees, !.dirty = r.st.dirty]
           ELSE [w EXCEPT !.trees = r.st.trees, !.dirty = r.st.dirty,
                          !.replayLogFile = r.pos,
                          !.replayLog = IF r.truncated
                                        THEN fileTruncate(w.replayLog, r.pos)
                                        ELSE w.replayLog])
       ELSE [w EXCEPT !.err = rr.err, !.trees = rr.st.trees, !.dirty = rr.st.dirty,
                      !.replayLogFile = rr.pos,
                      !.replayLog = fileTruncate(cut, rr.pos)]

\* lines 798-1005: what the replay loop leaves behind
replayed(w, r) ==
    IF r.err
    THEN [w EXCEPT !.err = TRUE, !.trees = r.st.trees, !.dirty = r.st.dirty]
    ELSE [w EXCEPT
            !.trees = r.st.trees,
            !.dirty = r.st.dirty,
            !.replayLogFile = r.pos,
            !.replayLog = IF r.truncated
                          THEN fileTruncate(w.replayLog, r.pos)
                          ELSE w.replayLog]

\* lines 764-1009: open the replay log, replay it, truncate at a bad entry
getCheckpointReplay(w) ==
    IF w.err \/ w.replayLogFileName = "" \/ ~w.replayLog.exists THEN w
    ELSE replayed(w, replayLoop(w.replayLog, 0, [trees |-> w.trees, dirty |-> w.dirty]))

getCheckpoint(w, autoFormat) ==
    getCheckpointReplay(getCheckpointLoad(getCheckpointHead(w, autoFormat)))

---------------------------------------------------------------------------
(* recordTransaction *)

\* lines 262-266: a transaction of up to replayLogWriteBufferDefaultSize bytes
\* is serialized into the default buffer, over what it held
bufferFilled(filled, bytesNeeded) ==
    IF bytesNeeded <= replayLogWriteBufferDefaultSize
    THEN Max(filled, bytesNeeded)
    ELSE filled

\* variant: an entry carries ReservedToNonce of the checkpoint header
lastCheckpointObjectNumberReserved(w) == w.hdr.reserved

\* lines 281-288: the LastCheckpointObjectNumber of an entry is the
\* CheckpointObjectTrailerV2StructObjectNumber of the in-memory checkpoint header
lastCheckpointObjectNumber(w) == w.hdr.obj

\* variant: the handle is left at the start of the file after the Write
recordTransactionRewinds(w, type, keys, vals) ==
    IF w.replayLogFileName = "" THEN w
    ELSE IF type = transactionPutInodeRecs /\ Len(keys) # Len(vals)
         THEN [w EXCEPT !.fatal = TRUE]
    ELSE IF w.replayLogFile = NilHandle /\ w.replayLog.exists
         THEN [w EXCEPT !.fatal = TRUE]
    ELSE LET buf == replayLogWriteBuffer(w.defaultReplayLogWriteBuffer,
                                         lastCheckpointObjectNumber(w), type, keys, vals)
             pos == IF w.replayLogFile = NilHandle THEN 0 ELSE w.replayLogFile
         IN [w EXCEPT !.replayLog = fileWrite(w.replayLog, pos, buf),
                      !.replayLogFile = 0,
                      !.defaultReplayLogWriteBuffer =
                          bufferFilled(@, bytesNeededOf(type, keys, vals))]

\* variant: the transaction is logged whether or not a replay log is configured
recordTransactionLogsAlways(w, type, keys, vals) ==
    IF type = transactionPutInodeRecs /\ Len(keys) # Len(vals)
    THEN [w EXCEPT !.fatal = TRUE]
    ELSE IF w.replayLogFile = NilHandle /\ w.replayLog.exists
         THEN [w EXCEPT !.fatal = TRUE]
    ELSE LET buf == replayLogWriteBuffer(w.defaultReplayLogWriteBuffer,
                                         lastCheckpointObjectNumber(w), type, keys, vals)
             pos == IF w.replayLogFile = NilHandle THEN 0 ELSE w.replayLogFile
         IN [w EXCEPT !.replayLog = fileWrite(w.replayLog, pos, buf),
                      !.replayLogFile =
                          pos + replayLogWriteBufferLen(bytesNeededOf(type, keys, vals)),
                      !.defaultReplayLogWriteBuffer =
                          bufferFilled(@, bytesNeededOf(type, keys, vals))]

\* lines 133-467; fatal stands for logger.Fatalf
recordTransaction(w, type, keys, vals) ==
    IF w.replayLogFileName = "" THEN w
    ELSE IF type = transactionPutInodeRecs /\ Len(keys) # Len(vals)
         THEN [w EXCEPT !.fatal = TRUE]
    ELSE IF w.replayLogFile = NilHandle /\ w.replayLog.exists
         THEN [w EXCEPT !.fatal = TRUE]     \* O_CREATE|O_EXCL on an existing file
    ELSE LET buf == replayLogWriteBuffer(w.defaultReplayLogWriteBuffer,
                                         lastCheckpointObjectNumber(w), type, keys, vals)
             pos == IF w.replayLogFile = NilHandle THEN 0 ELSE w.replayLogFile
         IN [w EXCEPT !.replayLog = fileWrite(w.replayLog, pos, buf),
                      !.replayLogFile =
                          pos + replayLogWriteBufferLen(bytesNeededOf(type, keys, vals)),
                      !.defaultReplayLogWriteBuffer =
                          bufferFilled(@, bytesNeededOf(type, keys, vals))]

---------------------------------------------------------------------------
(* State *)

VARIABLES
    volume,             \* the in-memory volumeStruct; run is "down" or "up"
    container,          \* the checkpoint container and its header value
    accountHeader,      \* the account is marked bi-modal
    objects,            \* the objects of the checkpoint container
    replayLog,          \* the replay log file
    replayLogFileName,  \* configuration: "" disables the replay log
    maxFlushSize,       \* configuration
    highestNonce,       \* the highest nonce fetchNonceWhileLocked has returned
    nonceRepeated,      \* a fetch returned a nonce not above all earlier ones
    nonceUnreserved,    \* a fetch returned a nonce beyond the reservation
    calls,              \* the calls made by the last getCheckpoint or putCheckpoint
    lastAct,            \* the last operation that ran
    putResult,          \* how the last putCheckpoint ended
    sinceRecord,        \* recordTransaction calls returned since the last putCheckpoint
    stop,               \* how the process last stopped and the trees it held
    upInfo,             \* what the last getCheckpoint found and returned
    garbageAt,          \* unit of the replay log where appended garbage starts
    mutex,              \* the tasks that hold the volume lock
    daemon,             \* the checkpoint daemon: where it is, the request it serves
    checkpointRequestChan,  \* the requests waiting in the channel
    requests,           \* the checkpoint requests made so far
    api,                \* where the callers of the API are
    byteLog,            \* a replay log byte by byte: entries written and replayed
    checkpointDoneWaitGroup \* the next-checkpoint-done wait group of the volume

vars == <<volume, container, accountHeader, objects, replayLog,
          replayLogFileName, maxFlushSize, highestNonce, nonceRepeated, nonceUnreserved, calls,
          lastAct, putResult, sinceRecord, stop, upInfo, garbageAt,
          mutex, daemon, checkpointRequestChan, requests, api, byteLog,
          checkpointDoneWaitGroup>>

config == <<replayLogFileName, maxFlushSize>>

\* the volume and its storage; the tasks around it
vvars == <<volume, container, accountHeader, objects, replayLog,
           replayLogFileName, maxFlushSize, highestNonce, nonceRepeated, nonceUnreserved, calls,
           lastAct, putResult, sinceRecord, stop, upInfo, garbageAt>>
dvars == <<mutex, daemon, checkpointRequestChan, requests, api, byteLog,
           checkpointDoneWaitGroup>>

DownVolume ==
    [run |-> "down",
     trees |-> EmptyTrees,
     dirty |-> [t \in TreeIds |-> FALSE],
     roots |-> [t \in TreeIds |-> NoRoot],
     counts |-> [t \in TreeIds |-> 0],
     layout |-> [t \in TreeIds |-> EmptyLayout],
     hdr |-> [obj |-> 0, len |-> 0, reserved |-> 0],
     nextNonce |-> 0,
     ctx |-> NoContext,
     ctxObj |-> 0,
     replayLogFile |-> NilHandle,
     defaultReplayLogWriteBuffer |-> 0,
     checkpointFlushedData |-> FALSE]

VolumeOf(w) == [f \in DOMAIN DownVolume |-> w[f]]

\* the volume and its surroundings as one record; fail names the call that fails
WorldOf(v, c, o, l, fail) ==
    v @@
    [container |-> c, accountHeader |-> accountHeader, objects |-> o,
     replayLog |-> l,
     replayLogFileName |-> replayLogFileName, maxFlushSize |-> maxFlushSize,
     fetched |-> <<>>, calls |-> <<>>, err |-> FALSE, done |-> FALSE,
     fatal |-> FALSE, fail |-> fail, nonce |-> 0, put |-> NoRoot, value |-> <<>>,
     unreserved |-> FALSE]

World(fail) == WorldOf(volume, container, objects, replayLog, fail)

RECURSIVE SeqMax(_, _)
SeqMax(s, m) == IF s = <<>> THEN m ELSE SeqMax(Tail(s), Max(Head(s), m))

\* every element of s is above m and above the elements before it
RECURSIVE Increasing(_, _)
Increasing(s, m) == s = <<>> \/ (Head(s) > m /\ Increasing(Tail(s), Head(s)))

Durable(w) ==
    /\ container' = w.container
    /\ accountHeader' = w.accountHeader
    /\ objects' = w.objects
    /\ replayLog' = w.replayLog
    /\ highestNonce' = SeqMax(w.fetched, highestNonce)
    /\ nonceRepeated' = (nonceRepeated \/ ~Increasing(w.fetched, highestNonce))
    /\ nonceUnreserved' = (nonceUnreserved \/ w.unreserved)

MaxRequests == 2
RequestIds == 1..MaxRequests

NoDaemon == [pc |-> "off", req |-> 0, exitOnCompletion |-> FALSE, chanCap |-> 0]
NoRequest == [state |-> "unused", exitOnCompletion |-> FALSE, err |-> "unset", done |-> 0]
NoCalls == [caller |-> "idle", reader |-> "idle"]
NoByteLog == [pc |-> "write", file |-> NoBytes, written |-> <<>>, pos |-> 0,
              replayed |-> <<>>]

\* volume.checkpointDoneWaitGroup: nil, or a wait group on which Add(1) was
\* called; done counts the Done calls on the wait group last held there
NoWaitGroup == [slot |-> "nil", done |-> 0]

NoStop == [kind |-> "none", trees |-> EmptyTrees]
NoUpInfo == [ok |-> FALSE, after |-> "none"]

MaxFlushSizes == {24}
TornBytes == 2000

Init ==
    /\ volume = DownVolume
    /\ container = NoContainer
    /\ accountHeader = FALSE
    /\ objects = [o \in {} |-> <<>>]
    /\ replayLog = NoFile
    /\ replayLogFileName \in {"", "replay.log"}
    /\ maxFlushSize \in MaxFlushSizes
    /\ highestNonce = 0
    /\ nonceRepeated = FALSE
    /\ nonceUnreserved = FALSE
    /\ calls = <<>>
    /\ lastAct = "init"
    /\ putResult = "none"
    /\ sinceRecord = 0
    /\ stop = NoStop
    /\ upInfo = NoUpInfo
    /\ garbageAt = -1
    /\ mutex = {}
    /\ daemon = NoDaemon
    /\ checkpointRequestChan = <<>>
    /\ requests = [r \in RequestIds |-> NoRequest]
    /\ api = NoCalls
    /\ byteLog = NoByteLog
    /\ checkpointDoneWaitGroup = NoWaitGroup

---------------------------------------------------------------------------
(* Operations *)

UpFaults == {"none", "head"}
PutFaults == {"none", "reserve", "send", "close", "post", "logClose", "logRemove"}

\* upVolume: getCheckpoint; the volume is up when it returns nil
upVolumeReturns(r) ==
    /\ volume' = IF r.err THEN DownVolume ELSE [VolumeOf(r) EXCEPT !.run = "up"]
    /\ Durable(r)
    /\ calls' = r.calls
    /\ upInfo' = [ok |-> ~r.err, after |-> stop.kind]
    /\ stop' = IF r.err THEN stop ELSE NoStop
    /\ garbageAt' = IF r.err THEN garbageAt ELSE -1

UpVolume(autoFormat, fault) ==
    /\ volume.run = "down"
    /\ upVolumeReturns(getCheckpoint(World(fault), autoFormat))
    /\ lastAct' = "up"
    /\ putResult' = "none"
    /\ sinceRecord' = 0
    /\ UNCHANGED config

\* a mutating call of the API: the tree is changed and the change recorded,
\* under the volume lock
recordTransactionReturns(r, lim) ==
    /\ Len(r.replayLog.units) <= lim.units
    /\ volume' = IF r.fatal THEN DownVolume ELSE VolumeOf(r)
    /\ Durable(r)
    /\ lastAct' = IF r.fatal THEN "fatal" ELSE "record"
    /\ stop' = IF r.fatal THEN [kind |-> "fatal", trees |-> volume.trees] ELSE NoStop
    /\ sinceRecord' = IF r.fatal THEN 0 ELSE sinceRecord + 1

Mutate(type, keys, vals, st, lim) ==
    /\ volume.run = "up"
    /\ sinceRecord < lim.records
    /\ recordTransactionReturns(
           recordTransaction([World("none") EXCEPT !.trees = st.trees, !.dirty = st.dirty],
                             type, keys, vals), lim)
    /\ calls' = <<>>
    /\ putResult' = "none"
    /\ garbageAt' = -1
    /\ UNCHANGED <<config, upInfo>>

VolumeState == [trees |-> volume.trees, dirty |-> volume.dirty]

\* the mutation a transaction stands for, applied to the trees in memory
applied(type, keys, vals) ==
    replayTransaction(VolumeState, [type |-> type, keys |-> keys, vals |-> vals])

PutRec(t, k, v, lim) ==
    Mutate(PutTypeOf(t), <<k>>, <<v>>, applied(PutTypeOf(t), <<k>>, <<v>>), lim)

DeleteRec(t, k, lim) ==
    Mutate(DeleteTypeOf(t), <<k>>, <<>>, applied(DeleteTypeOf(t), <<k>>, <<>>), lim)

Batches(values) == UNION {[1..n -> Keys \X values] : n \in 0..MaxBatch}

batchKeys(batch) == [i \in 1..Len(batch) |-> batch[i][1]]
batchValues(batch) == [i \in 1..Len(batch) |-> batch[i][2]]

PutInodeRecs(batch, lim) ==
    Mutate(transactionPutInodeRecs, batchKeys(batch), batchValues(batch),
           applied(transactionPutInodeRecs, batchKeys(batch), batchValues(batch)), lim)

\* FetchNonce of the API; a failed reservation is returned to the caller
fetchNonceReturns(r) ==
    /\ r.hdr.reserved <= MaxNonce
    /\ volume' = IF r.err THEN volume ELSE VolumeOf(r)
    /\ Durable(r)
    /\ calls' = r.calls

FetchNonce(fault) ==
    /\ volume.run = "up"
    /\ fetchNonceReturns(fetchNonceWhileLocked(World(fault)))
    /\ lastAct' = "fetchNonce"
    /\ putResult' = "none"
    /\ stop' = NoStop
    /\ garbageAt' = -1
    /\ UNCHANGED <<config, sinceRecord, upInfo>>

\* one round of the checkpoint daemon: putCheckpoint under the volume lock;
\* an error halts the process (logger.Fatalf)
putCheckpointReturns(r) ==
    /\ r.hdr.reserved <= MaxNonce
    /\ volume' = IF r.err THEN DownVolume ELSE VolumeOf(r)
    /\ Durable(r)
    /\ calls' = r.calls
    /\ putResult' = IF r.err THEN "err" ELSE IF r.done THEN "noop" ELSE "ok"
    /\ stop' = IF r.err THEN [kind |-> "putErr", trees |-> volume.trees] ELSE NoStop

PutCheckpoint(fault) ==
    /\ volume.run = "up"
    /\ putCheckpointReturns(putCheckpoint(World(fault)))
    /\ lastAct' = "put"
    /\ sinceRecord' = 0
    /\ upInfo' = NoUpInfo
    /\ garbageAt' = -1
    /\ UNCHANGED config

\* the process is killed between two operations
Kill ==
    /\ volume.run = "up"
    /\ volume' = DownVolume
    /\ stop' = [kind |-> IF sinceRecord > 0 THEN "afterRecord"
                         ELSE IF lastAct = "put" THEN "afterPut"
                         ELSE IF lastAct = "fetchNonce" THEN "afterFetch" ELSE "other",
                trees |-> volume.trees]
    /\ lastAct' = "kill"
    /\ calls' = <<>>
    /\ putResult' = "none"
    /\ sinceRecord' = 0
    /\ upInfo' = NoUpInfo
    /\ garbageAt' = -1
    /\ UNCHANGED <<container, accountHeader, objects, replayLog, config, highestNonce,
                   nonceRepeated, nonceUnreserved>>

\* the process is killed inside the Write of recordTransaction: whole units
\* of the buffer and then tailBytes more bytes reached the file
KillInWrite(t, k, v, whole, tailBytes, lim) ==
    /\ volume.run = "up"
    /\ replayLogFileName # ""
    /\ ~(volume.replayLogFile = NilHandle /\ replayLog.exists)
    /\ LET buf == replayLogWriteBuffer(volume.defaultReplayLogWriteBuffer,
                                       volume.hdr.obj, PutTypeOf(t), <<k>>, <<v>>)
           pos == IF volume.replayLogFile = NilHandle THEN 0 ELSE volume.replayLogFile
       IN /\ whole < Len(buf)
          /\ unitOf(pos) = Len(replayLog.units)
          /\ unitOf(pos) + whole <= lim.units
          /\ replayLog' = [exists |-> TRUE,
                           units |-> replayLog.units \o SubSeq(buf, 1, whole),
                           tail |-> IF whole = 0 THEN Max(tailBytes, replayLog.tail)
                                    ELSE tailBytes]
    /\ volume' = DownVolume
    /\ stop' = [kind |-> "inWrite", trees |-> volume.trees]
    /\ lastAct' = "kill"
    /\ calls' = <<>>
    /\ putResult' = "none"
    /\ sinceRecord' = 0
    /\ upInfo' = NoUpInfo
    /\ garbageAt' = -1
    /\ UNCHANGED <<container, accountHeader, objects, config, highestNonce, nonceRepeated,
                   nonceUnreserved>>

\* the checkpoint life cycle: every tree, every fault, short values and a
\* short replay log
Limits == [units |-> MaxLogUnits, records |-> MaxRecords]
SmallValues == {1}

Next ==
    \/ \E autoFormat \in BOOLEAN, fault \in UpFaults :
          UpVolume(autoFormat, fault) /\ UNCHANGED dvars
    \/ \E t \in TreeIds, k \in Keys, v \in SmallValues :
          PutRec(t, k, v, Limits) /\ UNCHANGED dvars
    \/ \E t \in TreeIds, k \in Keys : DeleteRec(t, k, Limits) /\ UNCHANGED dvars
    \/ \E batch \in Batches(SmallValues) : PutInodeRecs(batch, Limits) /\ UNCHANGED dvars
    \/ \E fault \in {"none", "reserve"} : FetchNonce(fault) /\ UNCHANGED dvars
    \/ \E fault \in PutFaults : PutCheckpoint(fault) /\ UNCHANGED dvars
    \/ Kill /\ UNCHANGED dvars
    \/ \E t \in TreeIds, k \in Keys, v \in SmallValues, tailBytes \in {0, TornBytes} :
          KillInWrite(t, k, v, 0, tailBytes, Limits) /\ UNCHANGED dvars

Spec == Init /\ [][Next]_vars

---------------------------------------------------------------------------
(* The replay log in depth: one tree, long values, entries of several units,
   torn writes and garbage behind the last entry; no injected faults *)

\* a unit of bytes that are not an entry: its first 8 bytes are not the
\* CRC-64 of what follows and its next 8 bytes read as BytesFollowing = bf
junkUnit(bf) ==
    [kind |-> "junk", crc |-> 0, bf |-> bf, fence |-> 0, type |-> 0,
     keys |-> <<>>, vals |-> <<>>, stale |-> 0]

\* BytesFollowing read from garbage: within one unit, or beyond it
JunkLengths == {24, 5000}

\* every unit of the file belongs to a complete, valid entry
logComplete(file) ==
    LET r == replayLoop(file, 0, [trees |-> EmptyTrees, dirty |-> [t \in TreeIds |-> FALSE]])
    IN file.tail = 0 /\ ~r.err /\ ~r.truncated

\* while the process is down, bytes are appended behind the last complete
\* entry of the replay log: a full unit of junk, or TornBytes of it
AppendGarbage(full, bf) ==
    /\ volume.run = "down"
    /\ replayLog.exists
    /\ garbageAt = -1
    /\ logComplete(replayLog)
    /\ replayLog' = IF full THEN [replayLog EXCEPT !.units = Append(@, junkUnit(bf))]
                    ELSE [replayLog EXCEPT !.tail = TornBytes]
    /\ garbageAt' = Len(replayLog.units)
    /\ lastAct' = "garbage"
    /\ UNCHANGED <<volume, container, accountHeader, objects, config, highestNonce,
                   nonceRepeated, nonceUnreserved, calls, putResult, sinceRecord, stop,
                   upInfo>>

LogLimits == [units |-> LogMaxUnits, records |-> LogMaxRecords]

InitLog == Init /\ replayLogFileName = "replay.log"

NextLog ==
    \/ UpVolume(TRUE, "none") /\ UNCHANGED dvars
    \/ \E k \in Keys, v \in Values : PutRec("inodeRec", k, v, LogLimits) /\ UNCHANGED dvars
    \/ \E k \in Keys : DeleteRec("inodeRec", k, LogLimits) /\ UNCHANGED dvars
    \/ \E batch \in Batches(Values) : PutInodeRecs(batch, LogLimits) /\ UNCHANGED dvars
    \/ PutCheckpoint("none") /\ UNCHANGED dvars
    \/ Kill /\ UNCHANGED dvars
    \/ \E k \in Keys, v \in Values, whole \in 0..1, tailBytes \in {0, TornBytes} :
          KillInWrite("inodeRec", k, v, whole, tailBytes, LogLimits) /\ UNCHANGED dvars
    \/ \E full \in BOOLEAN, bf \in JunkLengths : AppendGarbage(full, bf) /\ UNCHANGED dvars

SpecLog == InitLog /\ [][NextLog]_vars

---------------------------------------------------------------------------
(* upVolume and recordTransaction on inputs they must refuse: a checkpoint
   header that is not one of version 2, a container that cannot be read or
   made, a batch whose keys and values differ in number *)

\* header values getCheckpoint cannot accept: no field, three or five fields,
\* another version, a field that is not hex (-1)
BadHeaders ==
    {<<>>, <<checkpointHeaderVersion2, 0, 0>>,
     <<checkpointHeaderVersion2, 0, 0, firstNonceToProvide, 0>>,
     <<1, 0, 0, firstNonceToProvide>>, <<3, 0, 0, firstNonceToProvide>>,
     <<-1, 0, 0, firstNonceToProvide>>, <<checkpointHeaderVersion2, -1, 0, firstNonceToProvide>>,
     <<checkpointHeaderVersion2, 0, -1, firstNonceToProvide>>,
     <<checkpointHeaderVersion2, 0, 0, -1>>}

\* while the volume is down, the header of its container is found replaced
CorruptHeader(value) ==
    /\ volume.run = "down"
    /\ container.exists
    /\ container' = [container EXCEPT !.value = value]
    /\ lastAct' = "corrupt"
    /\ UNCHANGED <<volume, accountHeader, objects, replayLog, config, highestNonce,
                   nonceRepeated, nonceUnreserved, calls, putResult, sinceRecord, stop,
                   upInfo, garbageAt>>

mismatchedCallReturns(r) ==
    /\ volume' = IF r.fatal THEN DownVolume ELSE VolumeOf(r)
    /\ Durable(r)
    /\ stop' = IF r.fatal THEN [kind |-> "fatal", trees |-> volume.trees] ELSE NoStop

\* a caller hands recordTransaction a batch with len(keys) != len(values)
PutInodeRecsMismatched(keys, vals) ==
    /\ volume.run = "up"
    /\ Len(keys) # Len(vals)
    /\ mismatchedCallReturns(
           recordTransaction(World("none"), transactionPutInodeRecs, keys, vals))
    /\ lastAct' = "mismatch"
    /\ calls' = <<>>
    /\ putResult' = "none"
    /\ garbageAt' = -1
    /\ UNCHANGED <<config, upInfo, sinceRecord>>

AllUpFaults == {"none", "head", "containerPut", "accountPost"}

NextInputs ==
    \/ \E autoFormat \in BOOLEAN, fault \in AllUpFaults :
          UpVolume(autoFormat, fault) /\ UNCHANGED dvars
    \/ \E k \in Keys, v \in SmallValues : PutRec("inodeRec", k, v, Limits) /\ UNCHANGED dvars
    \/ \E k \in Keys : PutInodeRecsMismatched(<<k>>, <<>>) /\ UNCHANGED dvars
    \/ \E v \in SmallValues : PutInodeRecsMismatched(<<>>, <<v>>) /\ UNCHANGED dvars
    \/ PutCheckpoint("none") /\ UNCHANGED dvars
    \/ Kill /\ UNCHANGED dvars
    \/ \E value \in BadHeaders : CorruptHeader(value) /\ UNCHANGED dvars

SpecInputs == Init /\ [][NextInputs]_vars

---------------------------------------------------------------------------
(* Replay of logs of several entries on the three trees: short values, no
   injected faults *)

ReplayNonces == 2     \* checkpoints are put while the reserved nonces are within this of the seed
ReplayLimits == [units |-> LogMaxRecords, records |-> LogMaxRecords]

NextReplay ==
    \/ UpVolume(TRUE, "none") /\ UNCHANGED dvars
    \/ \E t \in TreeIds, k \in Keys, v \in SmallValues :
          PutRec(t, k, v, ReplayLimits) /\ UNCHANGED dvars
    \/ \E t \in TreeIds, k \in Keys : DeleteRec(t, k, ReplayLimits) /\ UNCHANGED dvars
    \/ \E batch \in Batches(SmallValues) :
          PutInodeRecs(batch, ReplayLimits) /\ UNCHANGED dvars
    \/ /\ volume.hdr.reserved <= firstNonceToProvide + ReplayNonces
       /\ PutCheckpoint("none")
       /\ UNCHANGED dvars
    \/ Kill /\ UNCHANGED dvars

SpecReplay == InitLog /\ [][NextReplay]_vars

---------------------------------------------------------------------------
(* The process killed inside putCheckpoint *)

\* the points of putCheckpoint at which the process is killed
PutPoints == <<"afterFlush", "afterTrailer", "afterPost", "afterLogClose", "afterLogRemove">>

\* putCheckpoint carried out up to point n of PutPoints
putCheckpointUpTo(w, n) ==
    IF n = 1 THEN putCheckpointFlush(w)
    ELSE IF n = 2 THEN putCheckpointTrailer(putCheckpointFlush(w))
    ELSE IF n = 3 THEN putCheckpointPost(putCheckpointTrailer(putCheckpointFlush(w)))
    ELSE IF n = 4
         THEN putCheckpointReplayLogClose(
                  putCheckpointPost(putCheckpointTrailer(putCheckpointFlush(w))))
         ELSE putCheckpointReplayLogRemove(putCheckpointReplayLogClose(
                  putCheckpointPost(putCheckpointTrailer(putCheckpointFlush(w)))))

\* what is durable of it stays: the objects whose chunked PUT was closed, the
\* header if posted, the replay log unless removed; memory is lost
killedInPutCheckpoint(r) ==
    /\ r.hdr.reserved <= MaxNonce
    /\ ~r.err
    /\ Durable(r)

KillInPutCheckpoint(n) ==
    /\ volume.run = "up"
    /\ killedInPutCheckpoint(putCheckpointUpTo(World("none"), n))
    /\ volume' = DownVolume
    /\ stop' = [kind |-> PutPoints[n], trees |-> volume.trees]
    /\ lastAct' = "kill"
    /\ calls' = <<>>
    /\ putResult' = "none"
    /\ sinceRecord' = 0
    /\ upInfo' = NoUpInfo
    /\ garbageAt' = -1
    /\ UNCHANGED config

NextCrash ==
    \/ UpVolume(TRUE, "none") /\ UNCHANGED dvars
    \/ \E t \in TreeIds, k \in Keys, v \in SmallValues :
          PutRec(t, k, v, Limits) /\ UNCHANGED dvars
    \/ \E t \in TreeIds, k \in Keys : DeleteRec(t, k, Limits) /\ UNCHANGED dvars
    \/ PutCheckpoint("none") /\ UNCHANGED dvars
    \/ Kill /\ UNCHANGED dvars
    \/ \E n \in 1..Len(PutPoints) : KillInPutCheckpoint(n) /\ UNCHANGED dvars

SpecCrash == Init /\ [][NextCrash]_vars

---------------------------------------------------------------------------
(* Entries of every type and size written to a replay log and replayed from
   it, byte by byte *)

EntryMaxKey == 2      \* keys of the entries are 1..EntryMaxKey
EntryMaxBatch == 2    \* pairs of a PutInodeRecs entry
EntryMaxEntries == 2  \* entries of the log

EntryKeys == 1..EntryMaxKey
EntryValues == 1..Len(ValueLens)
\* the values of a batch: short, longer than a unit, empty
EntryBatchValues == {1, 2, EmptyValue}
EntryBatches == UNION {[1..n -> EntryKeys \X EntryBatchValues] : n \in 0..EntryMaxBatch}

\* the object number of the checkpoint the log is written behind
EntryFence == firstNonceToProvide + 1

\* recordTransaction: the buffer is filled and written at the end of the log
WriteEntry(type, keys, vals) ==
    /\ byteLog.pc = "write"
    /\ Len(byteLog.written) < EntryMaxEntries
    /\ byteLog' = [byteLog EXCEPT
           !.file = bytesAppended(@, replayLogWriteBufferBytes(EntryFence, type, keys, vals)),
           !.written = Append(@, [start |-> byteLog.file.size,
                                  size |-> replayLogWriteBufferBytes(
                                               EntryFence, type, keys, vals).size,
                                  bytesNeeded |-> bytesNeededOf(type, keys, vals),
                                  type |-> type, keys |-> keys, vals |-> vals])]
    /\ UNCHANGED <<vvars, mutex, daemon, checkpointRequestChan, requests, api,
                   checkpointDoneWaitGroup>>

\* one round of the replay loop (lines 798-1004): the entry at
\* replayLogPosition is read, checked and decoded; the loop ends on an error
\* of ReadFull, on a CRC mismatch and on an unknown type
entryReplayed(r) ==
    byteLog' = IF r.err \/ ~r.crcOk \/ ~KnownType(r.type)
               THEN [byteLog EXCEPT !.pc = "stopped"]
               ELSE [byteLog EXCEPT !.pc = "replay",
                                    !.pos = @ + r.advance,
                                    !.replayed = Append(@, r)]

ReplayEntry ==
    /\ byteLog.pc \in {"write", "replay"}
    /\ byteLog.pos < byteLog.file.size
    /\ entryReplayed(replayTransactionBytes(byteLog.file, byteLog.pos))
    /\ UNCHANGED <<vvars, mutex, daemon, checkpointRequestChan, requests, api,
                   checkpointDoneWaitGroup>>

NextEntries ==
    \/ \E type \in PutTypes, k \in EntryKeys, v \in EntryValues : WriteEntry(type, <<k>>, <<v>>)
    \/ \E type \in DeleteTypes, k \in EntryKeys : WriteEntry(type, <<k>>, <<>>)
    \/ \E batch \in EntryBatches :
          WriteEntry(transactionPutInodeRecs,
                     [i \in 1..Len(batch) |-> batch[i][1]],
                     [i \in 1..Len(batch) |-> batch[i][2]])
    \/ ReplayEntry

SpecEntries == InitLog /\ [][NextEntries]_vars

---------------------------------------------------------------------------
(* The arithmetic of one round of the replay loop on a BytesFollowing field
   of any content.  A uint64 within 2^31 of 0 or of 2^64 is held as an
   integer n: n itself when n >= 0, and 2^64 + n when n < 0.  Sums and
   differences that stay in that range are then those of the integers, and
   they wrap at 2^64 as the sums of the program do *)

\* a <= b as uint64
uint64LessEq(a, b) == IF (a >= 0) <=> (b >= 0) THEN a <= b ELSE a >= 0

\* BytesFollowing fields found in a log: of entries within a unit and longer,
\* and values near 2^64, around those for which bytesNeeded wraps to 0, to
\* 8, and for which rounding bytesNeeded up to a unit wraps
HeaderBytesFollowing ==
    {0, 24, 4080, 4081, 8176, -4113, -4112, -4111, -17, -16, -9, -8, -2}

MaxJunkUnits == 2     \* units of bytes that are not an entry, appended to a log

\* lines 111-117: make([]byte, allocSize) panics on a length beyond the
\* address space; the result is len(alignedBuf), or Junk for the panic
constructedBufferLen(minBufferSize) ==
    IF AlignUp(minBufferSize) + replayLogWriteBufferAlignment - 1 < 0 THEN Junk
    ELSE AlignUp(minBufferSize)

\* lines 801-837 for an entry at pos of a file of size bytes whose
\* BytesFollowing reads bf: bytesNeeded, the length of replayLogReadBuffer
\* and how the round ends before the CRC is compared: "crc" (the slice
\* [8:bytesNeeded] is taken), "err" (io.ReadFull fails) or "panic"
replayRoundOf(bf, pos, size) ==
    LET bytesNeeded == uint64Size + uint64Size + bf
    IN IF uint64LessEq(bytesNeeded, defaultReplayLogReadBufferLen)
       THEN [bytesNeeded |-> bytesNeeded, bufferLen |-> defaultReplayLogReadBufferLen,
             outcome |-> IF uint64LessEq(uint64Size, bytesNeeded) THEN "crc" ELSE "panic"]
       ELSE IF constructedBufferLen(bytesNeeded) = Junk
            THEN [bytesNeeded |-> bytesNeeded, bufferLen |-> 0, outcome |-> "panic"]
            ELSE [bytesNeeded |-> bytesNeeded,
                  bufferLen |-> constructedBufferLen(bytesNeeded),
                  outcome |-> IF pos + constructedBufferLen(bytesNeeded) > size THEN "err"
                              ELSE IF uint64LessEq(bytesNeeded,
                                                   constructedBufferLen(bytesNeeded))
                                   THEN "crc" ELSE "panic"]

\* bytes that are not an entry are found behind the entries of the log, n
\* units of them; bytes 8 to 16 of the first read as BytesFollowing = bf
AppendJunk(bf, n) ==
    /\ byteLog.pc = "write"
    /\ byteLog.pos = 0
    /\ byteLog.file.size = SeqSum([i \in 1..Len(byteLog.written) |-> byteLog.written[i].size])
    /\ byteLog' = [byteLog EXCEPT
           !.file = bytesAppended(@, copyAt([size |-> n * replayLogWriteBufferAlignment,
                                             at |-> NoFields],
                                            uint64Size, uint64Size, bf))]
    /\ UNCHANGED <<vvars, mutex, daemon, checkpointRequestChan, requests, api,
                   checkpointDoneWaitGroup>>

\* one round of the replay loop on whatever the log holds at replayLogPosition
ReplayRound ==
    /\ byteLog.pc \in {"write", "replay"}
    /\ byteLog.pos < byteLog.file.size
    /\ IF replayRoundOf(bytesFollowingAt(byteLog.file, byteLog.pos),
                        byteLog.pos, byteLog.file.size).outcome = "panic"
       THEN byteLog' = [byteLog EXCEPT !.pc = "panicked"]
       ELSE entryReplayed(replayTransactionBytes(byteLog.file, byteLog.pos))
    /\ UNCHANGED <<vvars, mutex, daemon, checkpointRequestChan, requests, api,
                   checkpointDoneWaitGroup>>

NextArithmetic ==
    \/ \E type \in PutTypes, k \in EntryKeys, v \in {1, 2} : WriteEntry(type, <<k>>, <<v>>)
    \/ \E bf \in HeaderBytesFollowing, n \in 1..MaxJunkUnits : AppendJunk(bf, n)
    \/ ReplayRound

SpecArithmetic == InitLog /\ [][NextArithmetic]_vars

---------------------------------------------------------------------------
(* Checkpoint trailers: written by putCheckpoint, found damaged in the object
   store, loaded by upVolume *)

MaxTrailerCount == 2  \* a damaged element count of a trailer is 0..MaxTrailerCount

\* the tail of the checkpoint object the header of the container names
storedTail == ObjectTail(objects, container.value[2], container.value[3])

\* bytes a trailer with these element counts takes with its layouts
trailerSizeOf(counts) ==
    checkpointObjectTrailerV2StructSize
        + elementOfBPlusTreeLayoutStructSize
            * (counts["inodeRec"] + counts["logSegmentRec"] + counts["bPlusTreeObject"])

\* while the volume is down, an element count of the stored trailer is found
\* changed
CorruptTrailer(t, n) ==
    /\ volume.run = "down"
    /\ container.exists
    /\ container.value[2] \in DOMAIN objects
    /\ ~storedTail.err
    /\ storedTail.len = trailerSizeOf(storedTail.fixed.counts)
    /\ n # storedTail.fixed.counts[t]
    /\ objects' = [objects EXCEPT
           ![container.value[2]][Len(objects[container.value[2]]) - 1].data.counts[t] = n]
    /\ lastAct' = "corrupt"
    /\ UNCHANGED <<volume, container, accountHeader, replayLog, config, highestNonce,
                   nonceRepeated, nonceUnreserved, calls, putResult, sinceRecord, stop,
                   upInfo, garbageAt>>

NextTrailer ==
    \/ UpVolume(TRUE, "none") /\ UNCHANGED dvars
    \/ \E t \in TreeIds, k \in Keys, v \in SmallValues :
          PutRec(t, k, v, Limits) /\ UNCHANGED dvars
    \/ \E t \in TreeIds, k \in Keys : DeleteRec(t, k, Limits) /\ UNCHANGED dvars
    \/ PutCheckpoint("none") /\ UNCHANGED dvars
    \/ Kill /\ UNCHANGED dvars
    \/ \E t \in TreeIds, n \in 0..MaxTrailerCount : CorruptTrailer(t, n) /\ UNCHANGED dvars

SpecTrailer == Init /\ [][NextTrailer]_vars

---------------------------------------------------------------------------
(* The checkpoint daemon and the tasks around it: requesters that put a
   request in checkpointRequestChan, a caller of the mutating API and a caller
   of FetchLayoutReport, each under the volume lock *)

\* capacity of checkpointRequestChan: made where the volume is brought up,
\* without a buffer or with room for one request
ChanCapacities == {0, 1}

\* sync.Mutex: Lock returns once no task holds the lock
lockFreeAlways(m) == TRUE

lockFree(m) == m = {}

\* line 1346: waitGroup.Done() of the request
waitGroupDoneTwice(q) == [q EXCEPT !.done = @ + 2, !.state = "served"]

waitGroupDone(q) == [q EXCEPT !.done = @ + 1, !.state = "served"]

\* lines 1320-1342: a failed putCheckpoint ends the process in logger.Fatalf
daemonAfterPutCarriesOn(d, failed) == [d EXCEPT !.pc = "done"]

daemonAfterPut(d, failed) ==
    IF failed THEN [d EXCEPT !.pc = "halted"] ELSE [d EXCEPT !.pc = "done"]

\* lines 1353-1357: Unlock, then return or the next round
daemonAfterUnlockGoesOn(d) == [d EXCEPT !.pc = "select", !.req = 0]

daemonAfterUnlock(d) ==
    IF d.exitOnCompletion THEN [d EXCEPT !.pc = "exited", !.req = 0]
    ELSE [d EXCEPT !.pc = "select", !.req = 0]

\* fetchNextCheckPointDoneWaitGroupWhileLocked: the wait group of the slot,
\* made with Add(1) when the slot is nil
fetchNextCheckPointDoneWaitGroupWhileLocked(g) ==
    IF g.slot = "nil" THEN [slot |-> "registered", done |-> 0] ELSE g

\* lines 1217-1226: each ObjectDeleteAsync of putCheckpoint is handed the
\* wait group of the slot; n is the number of deletes
RECURSIVE registeredForDeletes(_, _)
registeredForDeletes(g, n) ==
    IF n = 0 THEN g
    ELSE registeredForDeletes(fetchNextCheckPointDoneWaitGroupWhileLocked(g), n - 1)

\* variant: Done is called and the slot keeps the wait group
checkpointDoneWaitGroupDoneKeepsSlot(g) ==
    IF g.slot = "nil" THEN g ELSE [g EXCEPT !.done = @ + 1]

\* lines 1347-1351: Done on the wait group of the slot, and the slot is nil
checkpointDoneWaitGroupDone(g) ==
    IF g.slot = "nil" THEN g ELSE [slot |-> "nil", done |-> g.done + 1]

\* time.After(checkpointInterval) of a select entered with a request waiting
\* has not fired when the request is received
timerFires(chan) == chan = <<>>

daemonRuns == daemon.pc \notin {"off", "halted", "exited"}

\* upVolume formats or loads the volume and starts the daemon
StartVolume(capacity) ==
    /\ daemon.pc = "off"
    /\ UpVolume(TRUE, "none")
    /\ daemon' = [daemon EXCEPT !.pc = "select", !.chanCap = capacity]
    /\ UNCHANGED <<byteLog, checkpointDoneWaitGroup, mutex, checkpointRequestChan, requests, api>>

\* a task sends a checkpoint request, waitGroup.Add(1) done; downVolume's has
\* exitOnCompletion. The send returns when the channel has room for the request
Request(r, exit) ==
    /\ daemonRuns
    /\ requests[r].state = "unused"
    /\ Len(checkpointRequestChan) < daemon.chanCap
    /\ checkpointRequestChan' = Append(checkpointRequestChan, r)
    /\ requests' = [requests EXCEPT ![r] = [NoRequest EXCEPT !.state = "queued",
                                                            !.exitOnCompletion = exit]]
    /\ UNCHANGED <<byteLog, checkpointDoneWaitGroup, vvars, mutex, daemon, api>>

\* the send on a channel without a buffer returns when the select of line 1306
\* receives the request from the sender
RequestHandedOver(r, exit) ==
    /\ daemon.pc = "select"
    /\ daemon.chanCap = 0
    /\ requests[r].state = "unused"
    /\ daemon' = [daemon EXCEPT !.pc = "lock", !.req = r]
    /\ requests' = [requests EXCEPT ![r] = [NoRequest EXCEPT !.state = "taken",
                                                            !.exitOnCompletion = exit]]
    /\ UNCHANGED <<byteLog, checkpointDoneWaitGroup, vvars, mutex, checkpointRequestChan, api>>

\* line 1306: the select receives the request at the head of the channel
DaemonReceive ==
    /\ daemon.pc = "select"
    /\ checkpointRequestChan # <<>>
    /\ daemon' = [daemon EXCEPT !.pc = "lock", !.req = Head(checkpointRequestChan)]
    /\ checkpointRequestChan' = Tail(checkpointRequestChan)
    /\ requests' = [requests EXCEPT ![Head(checkpointRequestChan)].state = "taken"]
    /\ UNCHANGED <<byteLog, checkpointDoneWaitGroup, vvars, mutex, api>>

\* lines 1308-1311: the timer fires; a request of the daemon's own, req 0
DaemonTick ==
    /\ daemon.pc = "select"
    /\ timerFires(checkpointRequestChan)
    /\ daemon' = [daemon EXCEPT !.pc = "lock", !.req = 0]
    /\ UNCHANGED <<byteLog, checkpointDoneWaitGroup, vvars, mutex, checkpointRequestChan, requests, api>>

\* line 1314
DaemonLock ==
    /\ daemon.pc = "lock"
    /\ lockFree(mutex)
    /\ mutex' = mutex \cup {"daemon"}
    /\ daemon' = [daemon EXCEPT !.pc = "put"]
    /\ UNCHANGED <<byteLog, checkpointDoneWaitGroup, vvars, checkpointRequestChan, requests, api>>

\* lines 1318-1342: putCheckpoint, its result in the request
DaemonPutCheckpoint(fault) ==
    /\ daemon.pc = "put"
    /\ PutCheckpoint(fault)
    /\ daemon' = daemonAfterPut(daemon, putResult' = "err")
    /\ requests' = IF daemon.req = 0 THEN requests
                   ELSE [requests EXCEPT ![daemon.req].err =
                            IF putResult' = "err" THEN "err" ELSE "nil"]
    /\ checkpointDoneWaitGroup' =
           registeredForDeletes(checkpointDoneWaitGroup,
               Cardinality({i \in 1..Len(calls') : calls'[i].op = "ObjectDeleteAsync"}))
    /\ UNCHANGED <<byteLog, mutex, checkpointRequestChan, api>>

\* lines 1344-1351: exitOnCompletion is read, the requester is woken, then
\* those who wait for this checkpoint
DaemonDone ==
    /\ daemon.pc = "done"
    /\ daemon' = [daemon EXCEPT !.pc = "unlock",
                                !.exitOnCompletion =
                                    IF daemon.req = 0 THEN FALSE
                                    ELSE requests[daemon.req].exitOnCompletion]
    /\ requests' = IF daemon.req = 0 THEN requests
                   ELSE [requests EXCEPT ![daemon.req] = waitGroupDone(@)]
    /\ checkpointDoneWaitGroup' = checkpointDoneWaitGroupDone(checkpointDoneWaitGroup)
    /\ UNCHANGED <<byteLog, vvars, mutex, checkpointRequestChan, api>>

\* lines 1353-1357
DaemonUnlock ==
    /\ daemon.pc = "unlock"
    /\ mutex' = mutex \ {"daemon"}
    /\ daemon' = daemonAfterUnlock(daemon)
    /\ UNCHANGED <<byteLog, checkpointDoneWaitGroup, vvars, checkpointRequestChan, requests, api>>

\* a call of the mutating API: Lock, the mutation with its recordTransaction
\* (or none), Unlock
CallerLock ==
    /\ daemonRuns
    /\ api.caller = "idle"
    /\ lockFree(mutex)
    /\ mutex' = mutex \cup {"caller"}
    /\ api' = [api EXCEPT !.caller = "locked"]
    /\ UNCHANGED <<byteLog, checkpointDoneWaitGroup, vvars, daemon, checkpointRequestChan, requests>>

\* the nonces left allow the checkpoint that this mutation makes necessary
CallerMutate(k, v) ==
    /\ daemonRuns
    /\ api.caller = "locked"
    /\ volume.hdr.reserved + nonceValuesToReserve <= MaxNonce
    /\ IF v = NoValue THEN DeleteRec("inodeRec", k, Limits)
       ELSE PutRec("inodeRec", k, v, Limits)
    /\ api' = [api EXCEPT !.caller = "mutated"]
    /\ UNCHANGED <<byteLog, checkpointDoneWaitGroup, mutex, daemon, checkpointRequestChan, requests>>

CallerUnlock ==
    /\ daemonRuns
    /\ api.caller \in {"locked", "mutated"}
    /\ mutex' = mutex \ {"caller"}
    /\ api' = [api EXCEPT !.caller = "idle"]
    /\ UNCHANGED <<byteLog, checkpointDoneWaitGroup, vvars, daemon, checkpointRequestChan, requests>>

\* lines 1378-1379 of FetchLayoutReport: Lock, and Unlock when it returns
ReaderLock ==
    /\ daemonRuns
    /\ api.reader = "idle"
    /\ lockFree(mutex)
    /\ mutex' = mutex \cup {"reader"}
    /\ api' = [api EXCEPT !.reader = "locked"]
    /\ UNCHANGED <<byteLog, checkpointDoneWaitGroup, vvars, daemon, checkpointRequestChan, requests>>

ReaderUnlock ==
    /\ daemonRuns
    /\ api.reader = "locked"
    /\ mutex' = mutex \ {"reader"}
    /\ api' = [api EXCEPT !.reader = "idle"]
    /\ UNCHANGED <<byteLog, checkpointDoneWaitGroup, vvars, daemon, checkpointRequestChan, requests>>

DaemonFaults == {"none", "post"}

\* the daemon's own steps other than the wait for the lock and the call of
\* putCheckpoint
DaemonStep ==
    \/ DaemonReceive
    \/ DaemonTick
    \/ DaemonDone
    \/ DaemonUnlock

NextDaemon ==
    \/ \E capacity \in ChanCapacities : StartVolume(capacity)
    \/ \E r \in RequestIds, exit \in BOOLEAN : Request(r, exit)
    \/ \E r \in RequestIds, exit \in BOOLEAN : RequestHandedOver(r, exit)
    \/ DaemonReceive
    \/ DaemonTick
    \/ DaemonLock
    \/ \E fault \in DaemonFaults : DaemonPutCheckpoint(fault)
    \/ DaemonDone
    \/ DaemonUnlock
    \/ CallerLock
    \/ \E k \in Keys, v \in SmallValues \cup {NoValue} : CallerMutate(k, v)
    \/ CallerUnlock
    \/ ReaderLock
    \/ ReaderUnlock

InitDaemon == Init /\ replayLogFileName = "replay.log"

\* a task that holds the volume lock asks for the wait group of the next
\* checkpoint, to wait on it once it has unlocked
CallerRegister ==
    /\ daemonRuns
    /\ api.caller \in {"locked", "mutated"}
    /\ checkpointDoneWaitGroup.slot = "nil"
    /\ checkpointDoneWaitGroup' =
           fetchNextCheckPointDoneWaitGroupWhileLocked(checkpointDoneWaitGroup)
    /\ UNCHANGED <<byteLog, vvars, mutex, daemon, checkpointRequestChan, requests, api>>

NextWaitGroup ==
    \/ NextDaemon
    \/ CallerRegister

SpecWaitGroup == InitDaemon /\ [][NextWaitGroup]_vars

SpecDaemon == InitDaemon /\ [][NextDaemon]_vars

\* the daemon takes its next step when it can; its call of putCheckpoint
\* returns (with or without an error); sync.Mutex hands the lock to a task that
\* keeps waiting for it; a task that holds the lock releases it
SpecDaemonFair ==
    /\ SpecDaemon
    /\ WF_vars(DaemonStep)
    /\ []<>(daemon.pc # "put")
    /\ SF_vars(DaemonLock)
    /\ WF_vars(CallerUnlock)
    /\ WF_vars(ReaderUnlock)

---------------------------------------------------------------------------
(* The chunked-PUT helpers called one at a time, in any order and with any
   context state, as putCheckpoint and the node callbacks call them *)

MaxContextBytes == 24 \* a helper is called while no more than this was sent to the context

ContextOps == {"openIfNecessary", "bytesPut", "sendChunk", "closeIfNecessary", "close"}
ContextFaults == {"none", "reserve", "send", "close"}
\* lengths of the chunks sent: below maxFlushSize, and maxFlushSize
ChunkLens == {8, 24}

\* the helper named op run on w; its error is in err
contextHelper(w, op, len) ==
    IF op = "openIfNecessary" THEN openCheckpointChunkedPutContextIfNecessary(w)
    ELSE IF op = "bytesPut"
         THEN [w EXCEPT !.err = bytesPutToCheckpointChunkedPutContext(w).err]
    ELSE IF op = "sendChunk"
         THEN sendChunkToCheckpointChunkedPutContext(w, "node", len, EmptyTree)
    ELSE IF op = "closeIfNecessary" THEN closeCheckpointChunkedPutContextIfNecessary(w)
    ELSE closeCheckpointChunkedPutContext(w)

contextHelperReturns(r) ==
    /\ r.hdr.reserved <= MaxNonce
    /\ r.ctx.bytesPut <= MaxContextBytes
    /\ volume' = VolumeOf(r)
    /\ Durable(r)
    /\ calls' = r.calls
    /\ putResult' = IF r.err THEN "err" ELSE "ok"

\* the call that can fail in each helper
contextFaultsOf(op) ==
    IF op = "openIfNecessary" THEN {"none", "reserve"}
    ELSE IF op = "sendChunk" THEN {"none", "send"}
    ELSE IF op = "bytesPut" THEN {"none"}
    ELSE {"none", "close"}

ContextCall(op, len, fault) ==
    /\ volume.run = "up"
    /\ fault \in contextFaultsOf(op)
    /\ op # "sendChunk" => len = 8
    /\ contextHelperReturns(contextHelper(World(fault), op, len))
    /\ lastAct' = op
    /\ UNCHANGED <<config, sinceRecord, stop, upInfo, garbageAt>>

\* a putCheckpoint starts with no context open: the one before it has closed
\* its context or halted the process
NextContext ==
    \/ UpVolume(TRUE, "none") /\ UNCHANGED dvars
    \/ \E op \in ContextOps, len \in ChunkLens, fault \in ContextFaults :
          ContextCall(op, len, fault) /\ UNCHANGED dvars
    \/ \E k \in Keys, v \in SmallValues : PutRec("inodeRec", k, v, Limits) /\ UNCHANGED dvars
    \/ ~volume.ctx.open /\ PutCheckpoint("none") /\ UNCHANGED dvars

InitContext == Init /\ replayLogFileName = ""

SpecContext == InitContext /\ [][NextContext]_vars

---------------------------------------------------------------------------
(* Properties *)

UpReturned == lastAct' = "up" /\ upInfo'.ok

\* C1: Round-trip. Mutations, then a successful putCheckpoint, then a stop of
\* the process, then upVolume: the three trees after upVolume are the trees
\* the process held when it stopped.
C1_RoundTrip ==
    [][(stop.kind = "afterPut" /\ UpReturned) => volume'.trees = stop.trees]_vars

C1_Witness ==
    /\ lastAct = "up" /\ upInfo.ok /\ upInfo.after = "afterPut"
    /\ volume.hdr.obj # 0
    /\ volume.trees # EmptyTrees

\* C2: Replay idempotence. With a replay log configured, a process killed
\* after a recordTransaction returned and before the next putCheckpoint comes
\* back from upVolume with the trees it held when it was killed.
C2_ReplayIdempotence ==
    [][(stop.kind = "afterRecord" /\ replayLogFileName # "" /\ UpReturned)
          => volume'.trees = stop.trees]_vars

C2_Witness ==
    /\ lastAct = "up" /\ upInfo.ok /\ upInfo.after = "afterRecord"
    /\ replayLogFileName # ""
    /\ Len(replayLog.units) >= 2
    /\ volume.hdr.obj # 0
    /\ volume.trees # EmptyTrees

\* C3: Nonce monotonicity. Over the life of the volume, kills and restarts
\* included, fetchNonceWhileLocked never returns a value it returned before:
\* each value is above every earlier one.
C3_NonceMonotonicity == ~nonceRepeated

C3_Witness ==
    /\ lastAct = "fetchNonce"
    /\ upInfo.ok /\ upInfo.after = "afterFetch"
    /\ highestNonce = volume.nextNonce
    /\ highestNonce > firstNonceToProvide + nonceValuesToReserve

\* what getCheckpoint makes of the durable state: container c, objects o, log l
recoveredFrom(c, o, l) == getCheckpoint(WorldOf(DownVolume, c, o, l, "none"), FALSE)

\* C4: Torn-write tolerance. With bytes appended behind the last complete
\* entry of the replay log (up to one full unit), upVolume succeeds, the trees
\* are those recovered from the log without the appended bytes, and a full
\* appended unit is cut off the file.
C4_TornWriteTolerance ==
    [][(garbageAt >= 1 /\ lastAct' = "up") =>
          /\ upInfo'.ok
          /\ volume'.trees =
                recoveredFrom(container, objects,
                    [replayLog EXCEPT !.units = SubSeq(@, 1, garbageAt), !.tail = 0]).trees
          /\ Len(replayLog.units) > garbageAt =>
                /\ replayLog'.units = SubSeq(replayLog.units, 1, garbageAt)
                /\ replayLog'.tail = 0]_vars

\* positions of the entries of a log whose LastCheckpointObjectNumber is not obj
mismatched(units, obj) ==
    {i \in 1..Len(units) : units[i].kind = "head" /\ units[i].fence # obj}

lastEntry(units) ==
    units[CHOOSE i \in 1..Len(units) :
            /\ units[i].kind = "head"
            /\ \A j \in (i + 1)..Len(units) : units[j].kind # "head"]

entryShows(trees, u) ==
    IF u.type = transactionPutInodeRecs
    THEN u.keys = <<>> \/ trees["inodeRec"][u.keys[Len(u.keys)]] = u.vals[Len(u.vals)]
    ELSE IF u.type \in PutTypes
         THEN trees[TreeOfType(u.type)][u.keys[1]] = u.vals[1]
         ELSE trees[TreeOfType(u.type)][u.keys[1]] = NoValue

PutReturned == lastAct = "put" /\ putResult = "ok"

callsOf(ops) == {i \in 1..Len(calls) : calls[i].op \in ops}

deleted == {calls[i].obj : i \in callsOf({"ObjectDeleteAsync"})}

\* C6: GC soundness. After a putCheckpoint that returned nil, no object it
\* asked ObjectDeleteAsync for is a key of a layout report, and no object
\* with bytes in some layout report was deleted.
C6_GCSoundness ==
    PutReturned =>
        /\ \A o \in deleted : \A t \in TreeIds : o \notin DOMAIN volume.layout[t]
        /\ \A t \in TreeIds : \A o \in DOMAIN volume.layout[t] :
              volume.layout[t][o] # 0 => o \notin deleted

C6_Witness == PutReturned /\ deleted # {}

posted(cs) == {i \in 1..Len(cs) : cs[i].op = "post" /\ cs[i].ok}

\* C7: Commit ordering. In a putCheckpoint every ObjectDeleteAsync comes
\* after the successful ContainerPost of the new header; when that POST or a
\* step before it fails, nothing is deleted and the replay log is neither
\* closed nor removed.
C7_CommitOrdering ==
    [][lastAct' = "put" =>
          /\ \A i \in 1..Len(calls') :
                calls'[i].op = "ObjectDeleteAsync" => \E j \in posted(calls') : j < i
          /\ posted(calls') = {} =>
                /\ \A i \in 1..Len(calls') :
                      calls'[i].op \notin {"ObjectDeleteAsync", "logClose", "logRemove",
                                           "logRemoveNotExist"}
                /\ replayLog' = replayLog]_vars

C7_Witness ==
    /\ lastAct = "put" /\ putResult = "err"
    /\ \E i \in 1..Len(calls) : calls[i].op = "post" /\ ~calls[i].ok
    /\ replayLog.exists

\* C8: Layout invariant. After a putCheckpoint that returned nil, the keys
\* of the three layout reports are the objects the volume requires: those
\* holding the roots and the one holding the trailer, which the header names.
C8_LayoutInvariant ==
    PutReturned =>
        /\ volume.hdr.obj \in UNION {DOMAIN volume.layout[t] : t \in TreeIds}
        /\ UNION {DOMAIN volume.layout[t] : t \in TreeIds}
              = {volume.roots[t].obj : t \in TreeIds} \cup {volume.hdr.obj}

\* C9: After a putCheckpoint that shipped data, posted the header and
\* returned nil, the replay log file is gone and the handle is nil; a Close
\* or Remove that fails, other than a Remove of an absent file, makes
\* putCheckpoint return an error.
C9_ReplayLogGone ==
    lastAct = "put" =>
        /\ putResult = "ok" => ~replayLog.exists /\ volume.replayLogFile = NilHandle
        /\ (\E i \in callsOf({"logClose", "logRemove"}) : ~calls[i].ok) => putResult = "err"

C9_Witness ==
    /\ PutReturned
    /\ \E i \in callsOf({"logClose"}) : calls[i].ok
    /\ \E i \in callsOf({"logRemove"}) : calls[i].ok

\* C10 as claimed: Durability. When recordTransaction returns, whatever the
\* configuration, the durable state holds the transaction: getCheckpoint run
\* on it rebuilds the trees the volume holds.
C10_Durability ==
    [][lastAct' = "record" =>
          /\ ~recoveredFrom(container', objects', replayLog').err
          /\ recoveredFrom(container', objects', replayLog').trees = volume'.trees]_vars

\* C10 with the configuration it needs: when the replay log is configured
\* (replayLogFileName is not empty) and recordTransaction returns, getCheckpoint
\* run on the durable state rebuilds the trees the volume holds.
C10_DurabilityWithLog ==
    [][(lastAct' = "record" /\ replayLogFileName # "") =>
          /\ ~recoveredFrom(container', objects', replayLog').err
          /\ recoveredFrom(container', objects', replayLog').trees = volume'.trees]_vars

C10_Witness ==
    /\ lastAct = "record"
    /\ replayLogFileName # ""
    /\ replayLog.units # <<>>
    /\ volume.hdr.obj # 0
    /\ volume.trees # EmptyTrees

\* byte offset at which the next Write of recordTransaction lands
writeOffset == IF volume.replayLogFile = NilHandle THEN 0 ELSE volume.replayLogFile

\* C11: Alignment. Every entry that recordTransaction writes to the replay
\* log begins at a file offset that is a multiple of 4096 and occupies a whole,
\* positive number of 4096-byte units, whether the file is created by the
\* Write, or appended to after a replay, after a truncation at a CRC failure
\* or after a partial tail was left out by rounding the size down.
C11_Alignment ==
    [][(lastAct' = "record" /\ replayLogFileName # "") =>
          /\ writeOffset % replayLogWriteBufferAlignment = 0
          /\ volume'.replayLogFile > writeOffset
          /\ (volume'.replayLogFile - writeOffset) % replayLogWriteBufferAlignment = 0
          /\ Len(replayLog'.units) * replayLogWriteBufferAlignment
                 >= volume'.replayLogFile]_vars

\* an entry appended behind a complete entry after a restart that found a
\* torn tail behind it
C11_Witness ==
    /\ lastAct = "record"
    /\ upInfo.ok /\ upInfo.after = "inWrite"
    /\ volume.replayLogFile >= 2 * replayLogWriteBufferAlignment
    /\ replayLog.tail = 0

\* C19: Zero padding. In every entry of the replay log the bytes from
\* bytesNeeded up to the end of its last 4096-byte unit are zero.
C19_ZeroPadding ==
    \A i \in 1..Len(replayLog.units) :
        replayLog.units[i].kind = "head" => replayLog.units[i].stale = 0

\* C12: Fail-stop. When putCheckpoint returns an error in the daemon, the
\* process halts with the daemon holding the volume lock and the requester's
\* wait group not signalled; from then on nothing changes the volume, its
\* storage, the requests or the lock.
C12_FailStop ==
    [][/\ putResult' = "err" =>
             /\ daemon'.pc = "halted"
             /\ "daemon" \in mutex'
             /\ daemon'.req # 0 => requests'[daemon'.req].done = 0
       /\ putResult = "err" =>
             UNCHANGED <<volume, container, objects, replayLog, requests, mutex, daemon,
                         checkpointRequestChan, api>>]_vars

C12_Witness ==
    /\ putResult = "err"
    /\ daemon.pc = "halted"
    /\ daemon.req # 0
    /\ requests[daemon.req].err = "err"
    /\ checkpointRequestChan # <<>>

\* at most one task holds the lock, and a task inside its critical section
\* is the one that holds it
exclusive ==
    /\ Cardinality(mutex) <= 1
    /\ daemon.pc \in {"put", "done", "unlock"} => mutex = {"daemon"}
    /\ api.caller \in {"locked", "mutated"} => mutex = {"caller"}
    /\ api.reader = "locked" => mutex = {"reader"}

\* C13: Mutual exclusion. putCheckpoint runs in the daemon only, with the
\* daemon holding the volume lock, and overlaps with no other putCheckpoint,
\* with no mutation and its recordTransaction, and with no FetchLayoutReport.
C13_MutualExclusion ==
    [][/\ exclusive'
       /\ lastAct' = "put" /\ calls' # calls =>
             daemon.pc = "put" /\ mutex = {"daemon"}
                /\ api.caller = "idle" /\ api.reader = "idle"
       /\ lastAct' = "record" /\ replayLog' # replayLog =>
             api.caller = "locked" /\ mutex = {"caller"}
                /\ daemon.pc \notin {"put", "done", "unlock"}]_vars

C13_Witness ==
    /\ daemon.pc = "put"
    /\ mutex = {"daemon"}
    /\ lastAct = "record"
    /\ putResult = "none"
    /\ volume.hdr.obj # 0

\* C14: Nonce reservation. ReservedToNonce is never below nextNonce, what the
\* volume holds reserved is what the header of the container says, and every
\* nonce was, when fetchNonceWhileLocked returned it, within the reservation
\* already stored in that header.
C14_NonceReservation ==
    /\ ~nonceUnreserved
    /\ volume.run = "up" =>
          /\ volume.nextNonce <= volume.hdr.reserved
          /\ container.exists
          /\ volume.hdr.reserved = container.value[4]
    /\ highestNonce > 0 => container.exists /\ highestNonce <= container.value[4]

C14_Witness ==
    /\ lastAct = "fetchNonce"
    /\ volume.run = "up"
    /\ highestNonce = volume.nextNonce
    /\ volume.nextNonce = volume.hdr.reserved
    /\ highestNonce >= firstNonceToProvide + 2 * nonceValuesToReserve

\* C15: Header rejection. With a checkpoint header that has not four fields,
\* or another version than 2, or a field that is not hex, upVolume returns an
\* error and makes no ContainerPut, ContainerPost or AccountPost, writes no
\* object and leaves the replay log as it is.
C15_HeaderRejection ==
    [][(lastAct' = "up" /\ container.exists /\ container.value \in BadHeaders) =>
          /\ ~upInfo'.ok
          /\ calls' = <<>>
          /\ UNCHANGED <<container, accountHeader, objects, replayLog>>]_vars

C15_Witness ==
    /\ lastAct = "up"
    /\ ~upInfo.ok
    /\ container.value \in BadHeaders
    /\ container.value # <<>>
    /\ container.value[1] # checkpointHeaderVersion2
    /\ DOMAIN objects # {}

formatCalls ==
    <<[op |-> "ContainerPut", obj |-> 0, ok |-> TRUE],
      [op |-> "AccountPost", obj |-> 0, ok |-> TRUE]>>

\* C16: Auto-format. With no checkpoint container (HEAD answers 404) and
\* autoFormat, upVolume PUTs the container with the header {2, 0, 0,
\* firstNonceToProvide}, then POSTs the account header, and ends with three
\* empty trees, empty layouts, CheckpointObjectNumber 0 and no replay log;
\* without autoFormat, or when HEAD fails otherwise, it returns the error and
\* makes no PUT and no POST.
C16_AutoFormat ==
    [][/\ (~container.exists /\ UpVolume(TRUE, "none")) =>
             /\ upInfo'.ok
             /\ calls' = formatCalls
             /\ container' = [exists |-> TRUE,
                              value |-> <<checkpointHeaderVersion2, 0, 0, firstNonceToProvide>>]
             /\ accountHeader'
             /\ volume'.trees = EmptyTrees
             /\ \A t \in TreeIds : volume'.layout[t] = EmptyLayout
             /\ volume'.hdr.obj = 0
             /\ ~replayLog'.exists
       /\ ((~container.exists /\ UpVolume(FALSE, "none"))
              \/ \E autoFormat \in BOOLEAN : UpVolume(autoFormat, "head")) =>
             /\ ~upInfo'.ok
             /\ calls' = <<>>
             /\ UNCHANGED <<container, accountHeader, objects, replayLog>>]_vars

C16_Witness ==
    /\ lastAct = "up"
    /\ upInfo.ok
    /\ calls = formatCalls
    /\ volume.hdr.obj = 0
    /\ volume.nextNonce = firstNonceToProvide

\* a request is signalled at most once, and only when served with err nil
requestsSafe ==
    \A r \in RequestIds :
        /\ requests[r].done <= 1
        /\ requests[r].done = 1 => requests[r].err = "nil" /\ requests[r].state = "served"

\* the daemon takes the request at the head of the channel, one at a time
inChannelOrder ==
    (daemon.pc = "select" /\ daemon'.pc = "lock" /\ checkpointRequestChan # <<>>) =>
        /\ daemon'.req = Head(checkpointRequestChan)
        /\ checkpointRequestChan' = Tail(checkpointRequestChan)

C18_DaemonTermination ==
    [][/\ (daemon'.pc = "exited" /\ daemon.pc # "exited") =>
             /\ daemon.pc = "unlock"
             /\ daemon.req # 0
             /\ requests[daemon.req].exitOnCompletion
             /\ requests[daemon.req].err = "nil"
             /\ requests[daemon.req].done = 1
       /\ (daemon.pc = "unlock" /\ daemon' # daemon) =>
             (daemon'.pc = "exited" <=>
                 (daemon.req # 0 /\ requests[daemon.req].exitOnCompletion))
       /\ (\E r \in RequestIds : requests[r].exitOnCompletion /\ requests[r].done >= 1) =>
             /\ daemon'.pc \in {"unlock", "exited"}
             /\ UNCHANGED <<volume, container, objects, replayLog, putResult>>]_vars

C18_Witness ==
    /\ daemon.pc = "exited"
    /\ putResult = "ok"
    /\ volume.trees # EmptyTrees
    /\ \E r \in RequestIds : requests[r].exitOnCompletion /\ requests[r].done = 1

\* C20: Programmer-error check. A call of recordTransaction for
\* transactionPutInodeRecs with len(keys) # len(values) is fatal and leaves
\* the replay log as it is, with the replay log enabled or disabled.
C20_MismatchFatal ==
    [][lastAct' = "mismatch" => stop'.kind = "fatal" /\ replayLog' = replayLog]_vars

\* the layouts as the three Flush calls of a putCheckpoint leave them, before
\* its garbage collection
layoutFlushed == putCheckpointFlush(World("none")).layout

\* the objects with no bytes left in any of the layouts that list them
unusedObjects(layout) ==
    {o \in UNION {DOMAIN layout[t] : t \in TreeIds} :
        \A t \in TreeIds : o \in DOMAIN layout[t] => layout[t][o] = 0}

\* C21: GC completeness. When a putCheckpoint that flushed data returns nil,
\* every object with 0 bytes in every layout that lists it was handed to
\* ObjectDeleteAsync exactly once by it and is a key of no layout; and every
\* entry of a tree's layout with 0 bytes is gone from that layout, also when
\* another tree still has bytes in the object.
C21_GCCompleteness ==
    [][(lastAct' = "put" /\ putResult' = "ok") =>
          /\ \A o \in unusedObjects(layoutFlushed) :
                /\ Cardinality({i \in 1..Len(calls') :
                        calls'[i].op = "ObjectDeleteAsync" /\ calls'[i].obj = o}) = 1
                /\ \A t \in TreeIds : o \notin DOMAIN volume'.layout[t]
          /\ \A t \in TreeIds : \A o \in DOMAIN layoutFlushed[t] :
                layoutFlushed[t][o] = 0 => o \notin DOMAIN volume'.layout[t]
          /\ \A t \in TreeIds : \A o \in DOMAIN volume'.layout[t] :
                volume'.layout[t][o] # 0]_vars

\* an entry with no bytes left was dropped from one tree's layout while the
\* object stays, another tree having bytes in it
C21_Witness ==
    /\ PutReturned
    /\ \E i \in callsOf({"delete"}) :
          /\ calls[i].obj \notin deleted
          /\ \E t \in TreeIds : calls[i].obj \in DOMAIN volume.layout[t]

\* C22: Exclusive create never collides. While the volume is up with a replay
\* log configured: when the handle of the replay log is nil the file does not
\* exist, so the open with O_CREATE|O_EXCL of the next recordTransaction cannot
\* fail; when the handle is not nil it stands at the end of the last entry
\* replayed or appended, with complete entries before it and no whole unit
\* behind it; and recordTransaction never ends in Fatalf.
C22_ExclusiveCreate ==
    /\ lastAct # "fatal"
    /\ (volume.run = "up" /\ replayLogFileName # "") =>
          IF volume.replayLogFile = NilHandle
          THEN ~replayLog.exists
          ELSE /\ replayLog.exists
               /\ volume.replayLogFile = Len(replayLog.units) * replayLogWriteBufferAlignment
               /\ logComplete(fileTruncate(replayLog, volume.replayLogFile))

\* after a checkpoint, a kill and a restart that replayed the log, an entry
\* appended behind the entries replayed
C22_Witness ==
    /\ lastAct = "record"
    /\ volume.hdr.obj > firstNonceToProvide + 1
    /\ volume.replayLogFile = Len(replayLog.units) * replayLogWriteBufferAlignment
    /\ Len(replayLog.units) >= 2
    /\ upInfo.ok /\ upInfo.after = "afterRecord"

killedInPut == stop.kind \in {PutPoints[n] : n \in 1..Len(PutPoints)}

\* C23 as claimed: Crash inside putCheckpoint. Whatever the point of
\* putCheckpoint at which the process is killed, the next upVolume succeeds
\* and rebuilds the trees the volume held when putCheckpoint started.
C23_CrashInPutCheckpoint ==
    [][(killedInPut /\ lastAct' = "up") =>
          /\ upInfo'.ok
          /\ volume'.trees = stop.trees]_vars

\* C23 with the configuration it needs: with a replay log configured the
\* above holds at every point; without one it holds from the POST of the
\* header on, and a kill before it brings back the trees of the last
\* checkpoint posted.
C23_CrashInPutCheckpointWithLog ==
    [][(killedInPut /\ lastAct' = "up") =>
          /\ upInfo'.ok
          /\ (replayLogFileName # "" \/ stop.kind \notin {"afterFlush", "afterTrailer"})
                => volume'.trees = stop.trees
          /\ (replayLogFileName = "" /\ stop.kind \in {"afterFlush", "afterTrailer"})
                => volume'.trees = recoveredFrom(container, objects, NoFile).trees]_vars

\* a restart after a kill between the POST of the header and the removal of
\* the replay log: the log replayed holds what the checkpoint holds
C23_Witness ==
    /\ lastAct = "up" /\ upInfo.ok /\ upInfo.after = "afterPost"
    /\ replayLog.exists /\ replayLog.units # <<>>
    /\ volume.hdr.obj > firstNonceToProvide + 1
    /\ volume.trees # EmptyTrees

\* the bytes at offset pos of file are an entry whose CRC64 field is the
\* CRC-64 of its bytes [8, BytesFollowing+16) and whose type is known; bytes
\* that the file does not hold make no such entry
entryValid(file, pos) ==
    LET u == file.units[unitOf(pos) + 1]
        n == AlignUp(u.bf + 16) \div replayLogWriteBufferAlignment
    IN /\ u.kind = "head"
       /\ unitOf(pos) + n <= Len(file.units)
       /\ \A i \in 2..n : file.units[unitOf(pos) + i] = contUnit(u)
       /\ u.crc = crc64Checksum(u.bf, u.fence, u.type, u.keys, u.vals)
       /\ u.type \in {transactionPutInodeRec, transactionPutInodeRecs,
                      transactionDeleteInodeRec, transactionPutLogSegmentRec,
                      transactionDeleteLogSegmentRec, transactionPutBPlusTreeObject,
                      transactionDeleteBPlusTreeObject}

\* offset of the first entry of file, from pos on, that is not valid; the
\* size of the file in whole units when there is none
RECURSIVE validPrefixEnd(_, _)
validPrefixEnd(file, pos) ==
    IF pos >= replayLogSizeOf(file) THEN pos
    ELSE IF entryValid(file, pos)
         THEN validPrefixEnd(file, pos + AlignUp(file.units[unitOf(pos) + 1].bf + 16))
         ELSE pos

\* the entries of file from pos up to end applied in file order to st
RECURSIVE prefixApplied(_, _, _, _)
prefixApplied(file, pos, end, st) ==
    IF pos >= end THEN st
    ELSE prefixApplied(file, pos + AlignUp(file.units[unitOf(pos) + 1].bf + 16), end,
                       replayTransaction(st, file.units[unitOf(pos) + 1]))

\* C24: Longest valid prefix. upVolume on a checkpoint that loads and a
\* replay log applies the entries from offset 0 in file order up to the first
\* entry whose CRC64 mismatches or whose type is unknown, truncates the file
\* at the start of that entry, leaves the handle there, applies nothing
\* behind it and returns success.
C24_LongestValidPrefix ==
    [][(lastAct' = "up" /\ replayLogFileName # "" /\ replayLog.exists
            /\ ~recoveredFrom(container, objects, NoFile).err) =>
          /\ upInfo'.ok
          /\ volume'.trees =
                prefixApplied(replayLog, 0, validPrefixEnd(replayLog, 0),
                    [trees |-> recoveredFrom(container, objects, NoFile).trees,
                     dirty |-> recoveredFrom(container, objects, NoFile).dirty]).trees
          /\ volume'.replayLogFile = validPrefixEnd(replayLog, 0)
          /\ replayLog' = IF validPrefixEnd(replayLog, 0) < replayLogSizeOf(replayLog)
                          THEN fileTruncate(replayLog, validPrefixEnd(replayLog, 0))
                          ELSE replayLog]_vars

\* the tree a transaction type belongs to
ownTree(type) ==
    IF type \in {transactionPutInodeRec, transactionPutInodeRecs, transactionDeleteInodeRec}
    THEN "inodeRec"
    ELSE IF type \in {transactionPutLogSegmentRec, transactionDeleteLogSegmentRec}
         THEN "logSegmentRec"
         ELSE "bPlusTreeObject"

\* the value of key k once the transaction of entry u is applied, old being
\* its value before: the value of the last pair for k, none after a delete
valueAfter(u, k, old) ==
    IF u.type \in {transactionDeleteInodeRec, transactionDeleteLogSegmentRec,
                   transactionDeleteBPlusTreeObject}
    THEN (IF u.keys[1] = k THEN NoValue ELSE old)
    ELSE LET hits == {i \in 1..Len(u.keys) : u.keys[i] = k}
         IN IF hits = {} THEN old
            ELSE u.vals[CHOOSE i \in hits : \A j \in hits : j <= i]

\* the transactions of the entries units[i..] applied in order to trees
RECURSIVE transactionsApplied(_, _, _)
transactionsApplied(units, i, trees) ==
    IF i > Len(units) THEN trees
    ELSE IF units[i].kind # "head" THEN transactionsApplied(units, i + 1, trees)
    ELSE transactionsApplied(units, i + 1,
             [t \in TreeIds |->
                 IF t # ownTree(units[i].type) THEN trees[t]
                 ELSE [k \in Keys |-> valueAfter(units[i], k, trees[t][k])]])

\* C25: Replay semantics. After upVolume has replayed a log of valid entries
\* the trees are the trees of the checkpoint with the logged transactions
\* applied in order: a put sets the key to the value whether the key was
\* there or not, PutInodeRecs applies its pairs in order, a delete removes the
\* key or does nothing when it is absent, each type in its own tree.
C25_ReplaySemantics ==
    [][(UpReturned /\ replayLogFileName # "" /\ replayLog.exists
            /\ logComplete(replayLog)) =>
          volume'.trees = transactionsApplied(replayLog.units, 1,
                              recoveredFrom(container, objects, NoFile).trees)]_vars

\* a log of two entries replayed on a checkpoint that holds a key: the log
\* deletes a key that the checkpoint holds and puts one it does not hold
C25_Witness ==
    /\ lastAct = "up" /\ upInfo.ok
    /\ Len(replayLog.units) >= 2
    /\ volume.hdr.obj > firstNonceToProvide + 1
    /\ \E i, j \in 1..Len(replayLog.units) :
          /\ i < j
          /\ replayLog.units[i].type \in DeleteTypes
          /\ replayLog.units[j].type \in PutTypes
          /\ ownTree(replayLog.units[i].type) # ownTree(replayLog.units[j].type)
          /\ recoveredFrom(container, objects, NoFile).trees
                 [ownTree(replayLog.units[i].type)][replayLog.units[i].keys[1]] # NoValue
          /\ recoveredFrom(container, objects, NoFile).trees
                 [ownTree(replayLog.units[j].type)][replayLog.units[j].keys[1]] = NoValue

\* C26: Record/replay round trip. Every entry written by recordTransaction,
\* of every type, with empty values, an empty PutInodeRecs batch and payloads
\* longer than the read buffer or the default write buffer, passes the CRC
\* check of replay and is decoded to the type, keys and values it was written
\* with; its BytesFollowing is bytesNeeded - 16.
C26_RecordReplayRoundTrip ==
    /\ byteLog.pc # "stopped"
    /\ \A i \in 1..Len(byteLog.replayed) :
          /\ byteLog.replayed[i].crcOk
          /\ byteLog.replayed[i].type = byteLog.written[i].type
          /\ byteLog.replayed[i].keys = byteLog.written[i].keys
          /\ byteLog.replayed[i].vals = byteLog.written[i].vals
          /\ byteLog.replayed[i].bf = byteLog.written[i].bytesNeeded - 16

\* a PutInodeRecs batch of two pairs whose first value is empty, then a put
\* of a value longer than the default write buffer, both replayed
C26_Witness ==
    /\ Len(byteLog.replayed) = 2
    /\ byteLog.written[1].type = transactionPutInodeRecs
    /\ Len(byteLog.written[1].keys) = 2
    /\ byteLog.written[1].vals[1] = EmptyValue
    /\ byteLog.written[1].keys[1] # byteLog.written[1].keys[2]
    /\ byteLog.written[2].type \in PutTypes
    /\ ValueLen(byteLog.written[2].vals[1]) > replayLogWriteBufferDefaultSize
    /\ byteLog.replayed[2].vals = byteLog.written[2].vals

\* C27: Reader and writer agree on the length of an entry. Replay advances
\* its position by 4096 when BytesFollowing + 16 <= 4096 and by
\* BytesFollowing + 16 rounded up to a multiple of 4096 otherwise; that is
\* the number of bytes recordTransaction wrote for the entry, so after n
\* entries the position is the start of entry n + 1.
C27_EntryLengthAgreed ==
    /\ \A i \in 1..Len(byteLog.replayed) :
          /\ byteLog.replayed[i].advance = byteLog.written[i].size
          /\ byteLog.replayed[i].advance =
                IF byteLog.replayed[i].bf + 16 <= 4096 THEN 4096
                ELSE ((byteLog.replayed[i].bf + 16 + 4095) \div 4096) * 4096
    /\ byteLog.pc = "replay" =>
          byteLog.pos = IF Len(byteLog.replayed) < Len(byteLog.written)
                        THEN byteLog.written[Len(byteLog.replayed) + 1].start
                        ELSE byteLog.file.size

\* an entry of exactly one unit and an entry one byte longer, both replayed:
\* the position is at the end of the file, three units in
C27_Witness ==
    /\ byteLog.pc = "replay"
    /\ Len(byteLog.replayed) = 2
    /\ byteLog.written[1].bytesNeeded = replayLogWriteBufferAlignment
    /\ byteLog.written[2].bytesNeeded = replayLogWriteBufferAlignment + 1
    /\ byteLog.pos = 3 * replayLogWriteBufferAlignment
    /\ byteLog.pos = byteLog.file.size

\* C28: No-op checkpoint. When the three Flush calls of putCheckpoint ship no
\* data, it returns nil and has made no call (no Prune, no chunked PUT, no
\* nonce fetched, no header POST, no Close or Remove of the replay log, no
\* delete); the checkpoint header, the layouts, the container, the objects
\* and the replay log are as before. The daemon then records the nil result
\* and wakes the requester.
C28_NoOpCheckpoint ==
    [][/\ (daemon.pc = "put" /\ daemon' # daemon /\ putResult' # "err"
              /\ ~volume'.checkpointFlushedData) =>
             /\ lastAct' = "put"
             /\ putResult' = "noop"
             /\ calls' = <<>>
             /\ volume' = [volume EXCEPT !.checkpointFlushedData = FALSE]
             /\ UNCHANGED <<container, objects, replayLog, highestNonce>>
             /\ daemon'.pc = "done"
             /\ daemon.req # 0 => requests'[daemon.req].err = "nil"
       /\ (daemon.pc = "done" /\ putResult = "noop" /\ daemon' # daemon /\ daemon.req # 0) =>
             /\ requests'[daemon.req].done = requests[daemon.req].done + 1
             /\ requests'[daemon.req].err = "nil"]_vars

\* after a checkpoint, a delete of an absent key is logged and dirties no
\* tree; the requested checkpoint ships nothing, the log stays and the
\* requester has been woken
C28_Witness ==
    /\ lastAct = "put" /\ putResult = "noop"
    /\ replayLog.exists /\ replayLog.units # <<>>
    /\ volume.replayLogFile # NilHandle
    /\ volume.hdr.obj > firstNonceToProvide + 1
    /\ daemon.pc = "unlock" /\ daemon.req # 0
    /\ requests[daemon.req].done = 1

\* the layout report held in elements from+1 .. from+n of the stored pairs
layoutOfPairs(pairs, from, n) ==
    [o \in {pairs[i][1] : i \in (from + 1)..(from + n)} |->
        pairs[CHOOSE i \in (from + 1)..(from + n) : pairs[i][1] = o][2]]

\* C29: The trailer is self-consistent. The header putCheckpoint writes names
\* the object that received the trailer, with the length trailerEnding -
\* trailerBeginning = 96 + 16 * (N1 + N2 + N3) for the element counts Ni of
\* the trailer; an upVolume that reads a tail of that length accepts it and
\* gives the first N1 pairs to the inodeRec layout, the next N2 to
\* logSegmentRec and the last N3 to bPlusTreeObject; a tail of another length
\* than 96 + 16 * (N1 + N2 + N3) is rejected with an error.
C29_TrailerSelfConsistent ==
    [][/\ (lastAct' = "put" /\ putResult' = "ok") =>
             /\ volume'.hdr.obj \in (DOMAIN objects') \ DOMAIN objects
             /\ container'.value[2] = volume'.hdr.obj
             /\ container'.value[3] = volume'.hdr.len
             /\ LET cs == objects'[volume'.hdr.obj]
                    n == Len(cs)
                IN /\ n >= 2
                   /\ cs[n - 1].kind = "trailer" /\ cs[n].kind = "layout"
                   /\ volume'.hdr.len = (cs[n].off + cs[n].len) - cs[n - 1].off
                   /\ volume'.hdr.len =
                         96 + 16 * (cs[n - 1].data.counts["inodeRec"]
                                      + cs[n - 1].data.counts["logSegmentRec"]
                                      + cs[n - 1].data.counts["bPlusTreeObject"])
       /\ (lastAct' = "up" /\ container.exists /\ container.value[2] \in DOMAIN objects
              /\ ~storedTail.err) =>
             LET n1 == storedTail.fixed.counts["inodeRec"]
                 n2 == storedTail.fixed.counts["logSegmentRec"]
                 n3 == storedTail.fixed.counts["bPlusTreeObject"]
             IN IF storedTail.len = 96 + 16 * (n1 + n2 + n3)
                THEN /\ upInfo'.ok
                     /\ volume'.layout["inodeRec"] = layoutOfPairs(storedTail.pairs, 0, n1)
                     /\ volume'.layout["logSegmentRec"] =
                           layoutOfPairs(storedTail.pairs, n1, n2)
                     /\ volume'.layout["bPlusTreeObject"] =
                           layoutOfPairs(storedTail.pairs, n1 + n2, n3)
                ELSE ~upInfo'.ok /\ volume'.run = "down"]_vars

\* upVolume has loaded a trailer whose three layouts each have an element
C29_Witness ==
    /\ lastAct = "up" /\ upInfo.ok
    /\ volume.hdr.obj > firstNonceToProvide + 1
    /\ volume.hdr.len = 96 + 16 * 3
    /\ \A t \in TreeIds : Cardinality(DOMAIN volume.layout[t]) >= 1
    /\ ~storedTail.err
    /\ storedTail.fixed.counts = [t \in TreeIds |-> Cardinality(DOMAIN volume.layout[t])]

\* C30: Persisted layouts match the layouts in memory. The three layout
\* reports upVolume loads from a trailer are those the volume held when the
\* putCheckpoint that wrote the trailer returned, after its garbage
\* collection dropped the entries of no bytes.
C30_PersistedLayouts ==
    (lastAct = "put" /\ putResult = "ok") =>
        recoveredFrom(container, objects, NoFile).layout = volume.layout

\* the offsets of the entries of file that pass the CRC check of replay
validEntries(file) ==
    {(i - 1) * replayLogWriteBufferAlignment : i \in {j \in 1..Len(file.units) :
        entryValid(file, (j - 1) * replayLogWriteBufferAlignment)}}

fenceAt(file, pos) == file.units[unitOf(pos) + 1].fence

stoppedBehindPost ==
    \/ stop'.kind \in {"afterPost", "afterLogClose"}
    \/ /\ stop'.kind = "putErr"
       /\ \E i \in 1..Len(calls') : calls'[i].op \in {"logClose", "logRemove"} /\ ~calls'[i].ok

C32_ObjectNumbersIncrease ==
    [][/\ highestNonce' >= highestNonce
       /\ (lastAct' = "put" /\ putResult' = "ok") =>
             /\ container'.value[2] = volume'.hdr.obj
             /\ volume'.hdr.obj # 0
             /\ volume'.hdr.obj > container.value[2]
             /\ volume'.hdr.obj > highestNonce
             /\ volume'.hdr.obj <= highestNonce'
             /\ \A o \in DOMAIN objects : volume'.hdr.obj > o
             /\ \A i \in 1..Len(calls') :
                   calls'[i].op = "ObjectDeleteAsync" => calls'[i].obj < volume'.hdr.obj
       /\ (lastAct' = "put" /\ putResult' = "noop") => container' = container
       /\ lastAct' = "up" => \A o \in DOMAIN objects : o <= highestNonce]_vars

\* a later checkpoint of the volume: it has asked to delete objects of
\* earlier checkpoints, and the store holds the old trailer objects still
C32_Witness ==
    /\ PutReturned
    /\ deleted # {}
    /\ container.value[2] > firstNonceToProvide + nonceValuesToReserve + 1
    /\ \E o \in DOMAIN objects : o < container.value[2]

\* the step is a call of the helper op
helperCalled(op) == volume.run = "up" /\ lastAct' = op

storage == <<container, objects, replayLog, highestNonce>>

\* C33: Chunked-PUT context discipline. The volume holds one context or
\* none. openIfNecessary leaves an open context as it is and fetches no nonce;
\* with none open it fetches exactly one nonce and opens an empty context of
\* the object so named. closeIfNecessary closes and clears the context exactly
\* when one is open and its running length is at least maxFlushSize, and
\* otherwise does nothing. close, sendChunk and bytesPut on an absent context
\* return an error and change nothing. After every putCheckpoint that shipped
\* data and returned nil the context is absent.
C33_ContextDiscipline ==
    [][/\ helperCalled("openIfNecessary") =>
             IF volume.ctx.open
             THEN putResult' = "ok" /\ volume' = volume /\ UNCHANGED storage
             ELSE IF putResult' = "ok"
                  THEN /\ volume'.ctx = [open |-> TRUE, chunks |-> <<>>, bytesPut |-> 0]
                       /\ volume'.nextNonce = volume.nextNonce + 1
                       /\ volume'.ctxObj = volume'.nextNonce
                       /\ highestNonce' = volume'.ctxObj
                       /\ volume'.ctxObj \notin DOMAIN objects
                       /\ objects' = objects
                  ELSE ~volume'.ctx.open /\ objects' = objects
       /\ helperCalled("closeIfNecessary") =>
             IF volume.ctx.open /\ volume.ctx.bytesPut >= maxFlushSize
             THEN /\ volume' = [volume EXCEPT !.ctx = NoContext]
                  /\ putResult' = "ok" =>
                        /\ DOMAIN objects' = DOMAIN objects \cup {volume.ctxObj}
                        /\ objects'[volume.ctxObj] = volume.ctx.chunks
                  /\ putResult' = "err" => objects' = objects
             ELSE putResult' = "ok" /\ volume' = volume /\ UNCHANGED storage
       /\ (\E op \in {"close", "sendChunk", "bytesPut"} : helperCalled(op))
              /\ ~volume.ctx.open =>
             putResult' = "err" /\ volume' = volume /\ UNCHANGED storage
       /\ (helperCalled("close") /\ volume.ctx.open) =>
             volume' = [volume EXCEPT !.ctx = NoContext]
       /\ (lastAct' = "put" /\ putResult' = "ok") => ~volume'.ctx.open]_vars

\* closeIfNecessary has found a context with maxFlushSize bytes in two chunks
\* and closed it: the object is in the store and no context is left
C33_Witness ==
    /\ lastAct = "closeIfNecessary" /\ putResult = "ok"
    /\ ~volume.ctx.open
    /\ volume.ctxObj \in DOMAIN objects
    /\ Len(objects[volume.ctxObj]) >= 2
    /\ objects[volume.ctxObj][Len(objects[volume.ctxObj])].off > 0
    /\ volume.hdr.obj # volume.ctxObj

leftoverLog ==
    [exists |-> TRUE, tail |-> 0,
     units |-> replayLogWriteBuffer(0, 0, transactionPutInodeRec, <<1>>, <<2>>)]

replayLogCalls == callsOf({"logClose", "logRemove", "logRemoveNotExist"})

\* C35: Disabled replay log. With replayLogFileName empty there is no replay
\* log file and the handle is nil in every state; recordTransaction of a
\* valid transaction creates no file and changes nothing of the volume
\* (the caller's mutation of the tree aside); upVolume opens and replays no
\* log, its trees are those of the checkpoint; putCheckpoint closes and
\* removes no file.
C35_DisabledReplayLog ==
    /\ [](replayLogFileName = "" =>
             /\ volume.replayLogFile = NilHandle
             /\ replayLog = NoFile
             /\ replayLogCalls = {})
    /\ [][replayLogFileName = "" =>
             /\ lastAct' = "record" =>
                   /\ volume' = [volume EXCEPT !.trees = volume'.trees,
                                               !.dirty = volume'.dirty]
                   /\ UNCHANGED <<container, objects, replayLog>>
                   /\ stop'.kind # "fatal"
             /\ (lastAct' = "up" /\ upInfo'.ok) =>
                   /\ replayLog' = replayLog
                   /\ volume'.replayLogFile = NilHandle
                   /\ ~container.exists => volume'.trees = EmptyTrees
                   /\ container.exists =>
                         /\ volume'.trees = recoveredFrom(container, objects, NoFile).trees
                         /\ recoveredFrom(container, objects, leftoverLog).trees = volume'.trees
                         /\ recoveredFrom(container, objects, leftoverLog).replayLog
                                = leftoverLog
                         /\ recoveredFrom(container, objects, leftoverLog).replayLogFile
                                = NilHandle
             /\ (lastAct' = "put" /\ putResult' = "ok") =>
                   /\ replayLog' = replayLog
                   /\ volume'.replayLogFile = NilHandle]_vars

\* with the replay log disabled: a put after a checkpoint, lost by a kill;
\* upVolume has brought back the trees of the checkpoint
C35_Witness ==
    /\ replayLogFileName = ""
    /\ lastAct = "up" /\ upInfo.ok /\ upInfo.after = "afterRecord"
    /\ volume.hdr.obj # 0
    /\ volume.replayLogFile = NilHandle

\* C36: Replay arithmetic is safe for every header content. Whatever the
\* BytesFollowing field of the entry at replayLogPosition holds, bytesNeeded =
\* BytesFollowing + 16 (modulo 2^64) is at least 8 and at most the length of
\* the buffer read, so that [8, bytesNeeded) is a range of the buffer, and
\* the buffer read ends within the log.
C36_ReplayArithmeticSafe ==
    [][(byteLog.pc \in {"write", "replay"} /\ byteLog'.file = byteLog.file
           /\ byteLog' # byteLog) =>
          LET round == replayRoundOf(bytesFollowingAt(byteLog.file, byteLog.pos),
                                     byteLog.pos, byteLog.file.size)
          IN /\ uint64LessEq(uint64Size, round.bytesNeeded)
             /\ uint64LessEq(round.bytesNeeded, round.bufferLen)
             /\ byteLog.pos + round.bufferLen <= byteLog.file.size
             /\ round.outcome = "crc"]_vars

\* C37: Auto-format is completed on retry. Every checkpoint container of the
\* model was made by the ContainerPut of auto-format, in some call of
\* upVolume. Whenever upVolume returns success, in that call or in a later
\* one, the account has been marked bi-modal by an AccountPost.
C37_AutoFormatCompleted ==
    (lastAct = "up" /\ upInfo.ok /\ container.exists) => accountHeader

====
